---- MODULE Spec2Model ----
(***************************************************************************)
(* Verification model of the Astronomy routines of                         *)
(* plugins/feature/map/czml.cpp (time conversion, memoized epochs,         *)
(* refraction quadrature, ephemeris status, stereographic projections).    *)
(*                                                                         *)
(* Doubles that the code only stores, copies or compares with 0.0 are kept *)
(* as their IEEE-754 binary64 image, four 16-bit limbs, most significant   *)
(* first.  Quantities the code computes with are kept as exact integers in *)
(* a stated unit (days, seconds of day, micro-degrees).                    *)
(***************************************************************************)
EXTENDS Integers, Sequences, FiniteSets, Bags, TLC

(***************************************************************************)
(* Bounds of the model.                                                    *)
(***************************************************************************)
NumThreads == 2
MinYear == 1900
MaxYear == 2100

VARIABLES
    j2000,      \* static double j2000 of Astronomy::jd_j2000 (binary64 image)
    b1950,      \* static double b1950 of Astronomy::jd_b1950 (binary64 image)
    last,       \* the most recent completed call made by the single caller
    thr,        \* per thread: position inside jd_j2000 / jd_b1950
    cal,        \* julianDate: the calendar date-time passed in
    jdv,        \* julianDate: the value returned for cal
    jdPrev,     \* julianDate: the value returned for the preceding day
    refro,      \* palRefro: loop variables and position
    epv,        \* earthOrbitVelocityBCRS / palEpv / eraEpv00 call
    xy,         \* stereographic projection call
    conv,       \* the most recent call of a coordinate or time conversion
    quad,       \* palRefro: the sums of one quadrature and the points evaluated
    czml,       \* the CZML object: its hashes, the clock and the last update
    swg         \* one SWGChannelSettings object

memoVars == <<j2000, b1950, last, thr>>
jdVars == <<cal, jdv, jdPrev>>
objVars == <<quad, czml, swg>>
callVars == <<j2000, b1950, last, thr, cal, jdv, jdPrev, refro, epv, xy, conv>>
vars == <<j2000, b1950, last, thr, cal, jdv, jdPrev, refro, epv, xy, conv,
         quad, czml, swg>>

(***************************************************************************)
(* C integer arithmetic.                                                   *)
(***************************************************************************)
Abs(a) == IF a < 0 THEN -a ELSE a

\* division rounding toward minus infinity
CDiv_floor(a, b) == a \div b

\* C99 integer division: the quotient is truncated toward zero.
CDiv(a, b) ==
    IF (a >= 0) = (b > 0) THEN Abs(a) \div Abs(b) ELSE -(Abs(a) \div Abs(b))

RECURSIVE Pow2(_)
Pow2(e) == IF e = 0 THEN 1 ELSE 2 * Pow2(e - 1)

(***************************************************************************)
(* Astronomy::julianDate(int year, int month, int day, int hours,          *)
(*                       int minutes, int seconds)                         *)
(* The result is the double julian_day + (hours/24.0 - 0.5)                *)
(* + minutes/1440.0 + seconds/86400.0, kept here as the integer day number *)
(* and the signed offset from it in seconds.                               *)
(***************************************************************************)
julian_day_4800(year, month, day) ==
      CDiv(1461 * (year + 4800 + CDiv(month - 14, 12)), 4)
    + CDiv(367 * (month - 2 - 12 * CDiv(month - 14, 12)), 12)
    - CDiv(3 * CDiv(year + 4800 + CDiv(month - 14, 12), 100), 4)
    + day - 32075

julian_day(year, month, day) ==
      CDiv(1461 * (year + 4800 + CDiv(month - 14, 12)), 4)
    + CDiv(367 * (month - 2 - 12 * CDiv(month - 14, 12)), 12)
    - CDiv(3 * CDiv(year + 4900 + CDiv(month - 14, 12), 100), 4)
    + day - 32075

julianDate(year, month, day, hours, minutes, seconds) ==
    [jdn |-> julian_day(year, month, day),
     sec |-> (hours * 3600 - 43200) + minutes * 60 + seconds]

\* The same instant with the offset brought into [0, 86400).
JDNorm(jd) ==
    [jdn |-> jd.jdn + ((jd.sec + 86400) \div 86400) - 1,
     sec |-> (jd.sec + 86400) % 86400]

(***************************************************************************)
(* IEEE-754 binary64 image of a Julian date in [2^21, 2^22) days, as four  *)
(* 16-bit limbs <<sign|exponent|mantissa top, ..., mantissa low>>.  The    *)
(* image is the correctly rounded one; for the two epoch dates it is also  *)
(* the image of the double sum formed by julianDate.                       *)
(***************************************************************************)
SecondsPerDay == 86400

RECURSIVE FracBits(_, _)
\* floor and remainder of num * 2^nbits / 86400, one binary digit at a time
FracBits(num, nbits) ==
    IF nbits = 0 THEN [q |-> 0, r |-> num]
    ELSE LET p == FracBits(num, nbits - 1)
         IN  IF 2 * p.r >= SecondsPerDay
             THEN [q |-> 2 * p.q + 1, r |-> 2 * p.r - SecondsPerDay]
             ELSE [q |-> 2 * p.q, r |-> 2 * p.r]

DoubleImage(jd) ==
    LET nn  == JDNorm(jd)
        m21 == nn.jdn - Pow2(21)
        fb  == FracBits(nn.sec, 31)
        fr  == IF 2 * fb.r > SecondsPerDay
                  \/ (2 * fb.r = SecondsPerDay /\ fb.q % 2 = 1)
               THEN fb.q + 1 ELSE fb.q
    IN  << (1023 + 21) * 16 + (m21 \div Pow2(17)),
           (m21 \div 2) % 65536,
           (m21 % 2) * 32768 + (fr \div 65536),
           fr % 65536 >>

PlusZero == <<0, 0, 0, 0>>

\* the C comparison  x == 0.0  on an image (true for +0.0 and -0.0)
IsZeroDouble(w) == w[1] \in {0, 32768} /\ w[2] = 0 /\ w[3] = 0 /\ w[4] = 0

\* whole days held by an image that is 0.0 or an integer in [2^21, 2^22)
WholeDays(w) ==
    IF IsZeroDouble(w) THEN 0
    ELSE Pow2(21) + (w[1] - (1023 + 21) * 16) * Pow2(17) + w[2] * 2
         + (w[3] \div 32768)

(***************************************************************************)
(* The memoized epochs, as functions of the current value of the function- *)
(* local static: the value returned and the value the static holds after   *)
(* the call.                                                               *)
(***************************************************************************)
jd_j2000_stale(static) ==
    [ret    |-> static,
     static |-> IF IsZeroDouble(static)
                THEN DoubleImage(julianDate(2000, 1, 1, 12, 0, 0))
                ELSE static]

jd_j2000(static) ==
    LET after == IF IsZeroDouble(static)
                 THEN DoubleImage(julianDate(2000, 1, 1, 12, 0, 0))
                 ELSE static
    IN  [ret |-> after, static |-> after]

jd_b1950(static) ==
    LET after == IF IsZeroDouble(static)
                 THEN DoubleImage(julianDate(1949, 12, 31, 22, 9, 0))
                 ELSE static
    IN  [ret |-> after, static |-> after]

(***************************************************************************)
(* fmod and Astronomy::localSiderealTime, in micro-degrees.                *)
(***************************************************************************)
MicroDeg == 1000000
Turn == 360 * MicroDeg

\* C fmod(x, m) for m > 0: the result has the sign of x
CFmod(x, m) == IF x >= 0 THEN x % m ELSE -((-x) % m)

RECURSIVE MulMod(_, _, _)
\* (a * b) % m for a, b >= 0 without forming a * b
MulMod(a, b, m) ==
    IF b = 0 THEN 0
    ELSE LET half == MulMod(a, b \div 2, m)
             dbl  == (2 * half) % m
         IN  IF b % 2 = 1 THEN (dbl + (a % m)) % m ELSE dbl

\* 0.985647 * (days + secs/86400) in micro-degrees, days >= 0, 0 <= secs < 86400
\* (985647 = 11 * 86400 + 35247), reduced modulo one turn
RateMod(days, secs) ==
    ( MulMod(985647, days, Turn)
      + 11 * secs
      + ((35247 * (secs \div 60)) \div 1440)
      + ((35247 * (secs % 60)) \div SecondsPerDay) ) % Turn

\* the same product, not reduced, for |d| below 1000 days
RateSmall(days, secs) ==
    985647 * days + 11 * secs + ((35247 * (secs \div 60)) \div 1440)
    + ((35247 * (secs % 60)) \div SecondsPerDay)

localSiderealTime(dateTime, longitude, static) ==
    LET jd   == julianDate(dateTime.year, dateTime.month, dateTime.day,
                           dateTime.hour, dateTime.minute, dateTime.second)
        ep   == jd_j2000(static)
        \* d = jd - jd_j2000(), as sign and magnitude
        dsec == jd.sec
        dday == jd.jdn - WholeDays(ep.ret)
        neg  == dday < 0 \/ (dday = 0 /\ dsec < 0)
        mag  == IF neg
                THEN (IF dsec > 0
                      THEN [d |-> -dday - 1, s |-> SecondsPerDay - dsec]
                      ELSE [d |-> -dday, s |-> -dsec])
                ELSE (IF dsec < 0
                      THEN [d |-> dday - 1, s |-> SecondsPerDay + dsec]
                      ELSE [d |-> dday, s |-> dsec])
        \* f = fmod(jd, 1.0);  (360/24) * (f + 0.5) * 24.0
        f    == JDNorm(jd).sec
        ut15 == 180 * MicroDeg + ((f * 12500) \div 3)
        \* 100.46 + longitude + (360/24) * ut  (positive for longitude >= -180)
        base == 100460000 + longitude * MicroDeg + ut15
        sum  == IF mag.d < 1000
                THEN CFmod(base + (IF neg THEN -1 ELSE 1)
                                  * RateSmall(mag.d, mag.s), Turn)
                ELSE IF neg
                     THEN -((RateMod(mag.d, mag.s) - (base % Turn)) % Turn)
                     ELSE (RateMod(mag.d, mag.s) + (base % Turn)) % Turn
    IN  [ret |-> sum, static |-> ep.static]

(***************************************************************************)
(* Calls made one after another by a single caller.                        *)
(***************************************************************************)
DateTime(yy, mo, dd, hh, mi, ss) ==
    [year |-> yy, month |-> mo, day |-> dd,
     hour |-> hh, minute |-> mi, second |-> ss]

NoDateTime == DateTime(0, 0, 0, 0, 0, 0)

\* UTC date-times and East longitudes (degrees) tried for localSiderealTime
SiderealDateTimes ==
    { DateTime(2000, 1, 1, 12, 0, 0),  DateTime(1999, 12, 31, 23, 59, 59),
      DateTime(2000, 1, 1, 11, 59, 59), DateTime(2000, 6, 15, 3, 4, 5),
      DateTime(1999, 3, 1, 0, 0, 0),   DateTime(2000, 2, 29, 18, 30, 0),
      DateTime(1950, 7, 4, 6, 0, 0),   DateTime(2100, 12, 31, 23, 0, 0) }

Longitudes == {-180, -90, -1, 0, 90, 180}

\* ran: the call found the static 0.0 and ran the julianDate computation
NoCall == [fn |-> "none", dateTime |-> NoDateTime, longitude |-> 0, ret |-> 0,
           ran |-> FALSE]

Call_jd_j2000 ==
    LET r == jd_j2000(j2000)
    IN  /\ j2000' = r.static
        /\ last' = [fn |-> "jd_j2000", dateTime |-> NoDateTime,
                    longitude |-> 0, ret |-> r.ret,
                    ran |-> IsZeroDouble(j2000)]
        /\ UNCHANGED <<objVars, b1950, thr, jdVars, refro, epv, xy, conv>>

Call_jd_b1950 ==
    LET r == jd_b1950(b1950)
    IN  /\ b1950' = r.static
        /\ last' = [fn |-> "jd_b1950", dateTime |-> NoDateTime,
                    longitude |-> 0, ret |-> r.ret,
                    ran |-> IsZeroDouble(b1950)]
        /\ UNCHANGED <<objVars, j2000, thr, jdVars, refro, epv, xy, conv>>

Call_localSiderealTime ==
    \E dateTime \in SiderealDateTimes, longitude \in Longitudes :
        LET r == localSiderealTime(dateTime, longitude, j2000)
        IN  /\ j2000' = r.static
            /\ last' = [fn |-> "localSiderealTime", dateTime |-> dateTime,
                        longitude |-> longitude, ret |-> r.ret,
                        ran |-> IsZeroDouble(j2000)]
            /\ UNCHANGED <<objVars, b1950, thr, jdVars, refro, epv, xy, conv>>

(***************************************************************************)
(* jd_j2000 / jd_b1950 called from several threads.  The statics are plain *)
(* doubles read and written without synchronisation (a data race): each    *)
(* access to the 8-byte object is two 4-byte accesses, high word (limbs 1, *)
(* 2) and low word (limbs 3, 4), in either order, and accesses of          *)
(* different threads interleave.                                           *)
(***************************************************************************)
Threads == 1 .. NumThreads

Words == {"hi", "lo"}

\* image w with one 4-byte word replaced by that word of image v
WithWord(w, v, word) ==
    IF word = "hi" THEN <<v[1], v[2], w[3], w[4]>>
                   ELSE <<w[1], w[2], v[3], v[4]>>

Epoch(fn) ==
    IF fn = "jd_j2000" THEN DoubleImage(julianDate(2000, 1, 1, 12, 0, 0))
                       ELSE DoubleImage(julianDate(1949, 12, 31, 22, 9, 0))

StaticOf(fn) == IF fn = "jd_j2000" THEN j2000 ELSE b1950

ThreadIdle == [pc |-> "idle", fn |-> "none", part |-> "none",
               tmp |-> PlusZero, ret |-> PlusZero]

\* a thread enters jd_j2000() or jd_b1950()
Enter(t) ==
    /\ thr[t].pc \in {"idle", "returned"}
    /\ \E fn \in {"jd_j2000", "jd_b1950"} :
          thr' = [thr EXCEPT ![t] = [ThreadIdle EXCEPT !.pc = "test", !.fn = fn]]
    /\ UNCHANGED <<objVars, j2000, b1950, last, jdVars, refro, epv, xy, conv>>

\* if (j2000 == 0.0): read the static, one word at a time, then compare
Test(t) ==
    /\ thr[t].pc = "test"
    /\ \E word \in Words \ {thr[t].part} :
          LET seen == WithWord(thr[t].tmp, StaticOf(thr[t].fn), word)
          IN  thr' = [thr EXCEPT ![t] =
                        IF thr[t].part = "none"
                        THEN [@ EXCEPT !.part = word, !.tmp = seen]
                        ELSE [@ EXCEPT !.part = "none", !.tmp = PlusZero,
                                       !.pc = IF IsZeroDouble(seen)
                                              THEN "store" ELSE "load"]]
    /\ UNCHANGED <<objVars, j2000, b1950, last, jdVars, refro, epv, xy, conv>>

\* j2000 = julianDate(2000, 1, 1, 12, 0, 0): write the static, word by word
Store(t) ==
    /\ thr[t].pc = "store"
    /\ \E word \in Words \ {thr[t].part} :
          /\ IF thr[t].fn = "jd_j2000"
             THEN /\ j2000' = WithWord(j2000, Epoch(thr[t].fn), word)
                  /\ UNCHANGED b1950
             ELSE /\ b1950' = WithWord(b1950, Epoch(thr[t].fn), word)
                  /\ UNCHANGED j2000
          /\ thr' = [thr EXCEPT ![t] =
                        IF thr[t].part = "none"
                        THEN [@ EXCEPT !.part = word]
                        ELSE [@ EXCEPT !.part = "none", !.pc = "load"]]
    /\ UNCHANGED <<objVars, last, jdVars, refro, epv, xy, conv>>

\* return j2000: read the static, word by word, and return what was read
Load(t) ==
    /\ thr[t].pc = "load"
    /\ \E word \in Words \ {thr[t].part} :
          LET seen == WithWord(thr[t].tmp, StaticOf(thr[t].fn), word)
          IN  thr' = [thr EXCEPT ![t] =
                        IF thr[t].part = "none"
                        THEN [@ EXCEPT !.part = word, !.tmp = seen]
                        ELSE [@ EXCEPT !.part = "none", !.tmp = PlusZero,
                                       !.pc = "returned", !.ret = seen]]
    /\ UNCHANGED <<objVars, j2000, b1950, last, jdVars, refro, epv, xy, conv>>

(***************************************************************************)
(* Astronomy::julianDate(QDateTime): the date-time is split by QDate and    *)
(* QTime into Gregorian calendar fields, which julianDate(int, ...) turns   *)
(* into a Julian date.  The caller walks the calendar one day at a time.    *)
(***************************************************************************)
IsLeapYear(yy) == (yy % 4 = 0 /\ yy % 100 # 0) \/ yy % 400 = 0

DaysInMonth(yy, mo) ==
    IF mo = 2 THEN (IF IsLeapYear(yy) THEN 29 ELSE 28)
    ELSE IF mo \in {4, 6, 9, 11} THEN 30 ELSE 31

\* QDateTime::addDays(1)
NextDay(dateTime) ==
    IF dateTime.day < DaysInMonth(dateTime.year, dateTime.month)
    THEN [dateTime EXCEPT !.day = @ + 1]
    ELSE IF dateTime.month < 12
         THEN [dateTime EXCEPT !.day = 1, !.month = @ + 1]
         ELSE [dateTime EXCEPT !.day = 1, !.month = 1, !.year = @ + 1]

TimesOfDay == { <<0, 0, 0>>, <<12, 0, 0>>, <<23, 59, 59>> }

NoJulianDate == [jdn |-> 0, sec |-> 0]

julianDateOf(dateTime) ==
    julianDate(dateTime.year, dateTime.month, dateTime.day,
               dateTime.hour, dateTime.minute, dateTime.second)

\* julianDate is called for the first day of the range, at some time of day
Call_julianDate ==
    /\ cal = NoDateTime
    /\ \E tod \in TimesOfDay :
          cal' = DateTime(MinYear, 1, 1, tod[1], tod[2], tod[3])
    /\ jdv' = julianDateOf(cal')
    /\ jdPrev' = NoJulianDate
    /\ UNCHANGED <<objVars, memoVars, refro, epv, xy, conv>>

\* julianDate is called for the day after the one it was last called for
Call_julianDate_NextDay ==
    /\ cal # NoDateTime
    /\ cal.year <= MaxYear
    /\ cal' = NextDay(cal)
    /\ jdv' = julianDateOf(cal')
    /\ jdPrev' = jdv
    /\ UNCHANGED <<objVars, memoVars, refro, epv, xy, conv>>

(***************************************************************************)
(* palRefro: the two-layer refraction quadrature.  Floating-point values   *)
(* are not computed: an estimate is named by the layer and the number of   *)
(* strips it was formed on, and each floating-point comparison is an input *)
(* that may come out either way (a NaN operand makes it false).            *)
(***************************************************************************)
ISMAX == 16384

Estimate(layer, strips) == [layer |-> layer, strips |-> strips]
RefZero == Estimate(0, 0)      \* the constant 0.0
RefOne == Estimate(0, 1)       \* the constant 1.0
NoResult == [tropo |-> RefZero, strato |-> RefZero, negated |-> FALSE]

RefroIdle ==
    [pc |-> "idle", k |-> 0, is |-> 0, n |-> 0, i |-> 0, j |-> 0, loop |-> 0,
     refold |-> RefZero, refp |-> RefZero, reft |-> RefZero, ref |-> NoResult,
     zneg |-> FALSE, exceeds |-> FALSE, passes |-> 0]

RadiusContinues_le(drBig, jj) == drBig /\ jj <= 4

\* while ( fabs(dr) > 1.0 && j < 4 )
RadiusContinues(drBig, jj) == drBig /\ jj < 4

MustRefine_le(exceeds, strips) == exceeds /\ strips <= ISMAX

\* if (fabs(refp-refold) > tol && is < ISMAX)
MustRefine(exceeds, strips) == exceeds /\ strips < ISMAX

NextStrips_same(strips) == strips

\* is += is
NextStrips(strips) == strips + strips

\* entry: reft = 0.0, k = 1
Call_palRefro ==
    /\ refro.pc \in {"idle", "done"}
    /\ refro' = [RefroIdle EXCEPT !.pc = "layer", !.k = 1]
    /\ UNCHANGED <<objVars, memoVars, jdVars, epv, xy, conv>>

\* for (k=1; k<=2; k++) body start: refold = 1.0; is = 8; n = 1; loop = 1
Refro_LayerStart ==
    /\ refro.pc = "layer"
    /\ refro.k <= 2
    /\ refro' = [refro EXCEPT !.refold = RefOne, !.is = 8, !.n = 1,
                              !.loop = 1, !.passes = 0, !.pc = "while"]
    /\ UNCHANGED <<objVars, memoVars, jdVars, epv, xy, conv>>

\* while (loop) taken: a quadrature pass starts at i = 1
Refro_PassStart ==
    /\ refro.pc = "while"
    /\ refro.loop # 0
    /\ refro' = [refro EXCEPT !.i = 1, !.passes = @ + 1, !.pc = "for"]
    /\ UNCHANGED <<objVars, memoVars, jdVars, epv, xy, conv>>

\* for (i=1; i<is; i+=n) body start; sz > 1e-20 may fail
Refro_Point ==
    /\ refro.pc = "for"
    /\ refro.i < refro.is
    /\ \E szPositive \in BOOLEAN :
          refro' = IF szPositive
                   THEN [refro EXCEPT !.j = 0, !.pc = "radius"]
                   ELSE [refro EXCEPT !.i = @ + refro.n]
    /\ UNCHANGED <<objVars, memoVars, jdVars, epv, xy, conv>>

\* the radius-finding loop: dr is 1.0e6 before the first test
Refro_Radius ==
    /\ refro.pc = "radius"
    /\ \E drBig \in BOOLEAN :
          /\ refro.j = 0 => drBig
          /\ refro' = IF RadiusContinues(drBig, refro.j)
                      THEN [refro EXCEPT !.j = @ + 1]
                      ELSE [refro EXCEPT !.i = @ + refro.n, !.pc = "for"]
    /\ UNCHANGED <<objVars, memoVars, jdVars, epv, xy, conv>>

\* for loop exhausted: refp = h*(fb+4.0*fo+2.0*fe+ff)/3.0 and the test
Refro_Simpson ==
    /\ refro.pc = "for"
    /\ refro.i >= refro.is
    /\ \E exceeds \in BOOLEAN :
          LET now == Estimate(refro.k, refro.is)
          IN  refro' = IF MustRefine(exceeds, refro.is)
                       THEN [refro EXCEPT !.refp = now, !.exceeds = exceeds,
                                          !.refold = now,
                                          !.is = NextStrips(refro.is),
                                          !.n = 2, !.pc = "while"]
                       ELSE [refro EXCEPT !.refp = now, !.exceeds = exceeds,
                                          !.reft = IF refro.k = 1 THEN now ELSE @,
                                          !.loop = 0, !.pc = "while"]
    /\ UNCHANGED <<objVars, memoVars, jdVars, epv, xy, conv>>

\* while (loop) not taken: k++
Refro_LayerEnd ==
    /\ refro.pc = "while"
    /\ refro.loop = 0
    /\ refro' = [refro EXCEPT !.k = @ + 1, !.pc = "layer"]
    /\ UNCHANGED <<objVars, memoVars, jdVars, epv, xy, conv>>

\* *ref = reft+refp; if (zobs1 < 0.0) *ref = -(*ref)
Refro_Result ==
    /\ refro.pc = "layer"
    /\ refro.k > 2
    /\ \E zneg \in BOOLEAN :
          refro' = [refro EXCEPT !.zneg = zneg,
                                 !.ref = [tropo |-> refro.reft,
                                          strato |-> refro.refp,
                                          negated |-> zneg],
                                 !.pc = "done"]
    /\ UNCHANGED <<objVars, memoVars, jdVars, epv, xy, conv>>

RefroStep ==
    \/ Refro_LayerStart \/ Refro_PassStart \/ Refro_Point \/ Refro_Radius
    \/ Refro_Simpson \/ Refro_LayerEnd \/ Refro_Result

(***************************************************************************)
(* earthOrbitVelocityBCRS -> palEpv -> eraEpv00.  Dates are day counts     *)
(* kept as whole days plus seconds, [day, sec] with 0 <= sec < 86400.  The *)
(* series sums are not computed: a component is either "indeterminate"     *)
(* (never written) or "computed".                                          *)
(***************************************************************************)
Days(dd, ss) ==
    [day |-> dd + ((ss + 2 * SecondsPerDay) \div SecondsPerDay) - 2,
     sec |-> (ss + 2 * SecondsPerDay) % SecondsPerDay]

DaysAdd(a, b) == Days(a.day + b.day, a.sec + b.sec)
DaysNeg(a) == Days(-a.day, -a.sec)
DaysSub(a, b) == DaysAdd(a, DaysNeg(b))
DaysAbs(a) == IF a.day < 0 THEN DaysNeg(a) ELSE a
DaysLE(a, b) == a.day < b.day \/ (a.day = b.day /\ a.sec <= b.sec)
DaysLT(a, b) == a.day < b.day \/ (a.day = b.day /\ a.sec < b.sec)

PAL__MJD0 == Days(2400000, 43200)        \* 2400000.5
ERFA_DJ00 == Days(2451545, 0)            \* 2451545.0
\* 100.0 * ERFA_DJY, ERFA_DJY = 365.25 = 1461/4 days
HundredYears == Days((100 * 1461) \div 4, 0)

Vec3(what) == [c \in 0 .. 2 |-> what]
PV(what) == [r \in 0 .. 1 |-> Vec3(what)]

\* Astronomy::modifiedJulianDate
modifiedJulianDate(dateTime) ==
    LET jd == julianDateOf(dateTime)
    IN  DaysSub(Days(jd.jdn, jd.sec), Days(2400000, 43200))

\* jstat = fabs(t) <= 100.0 ? 0 : 1, t = ((date1 - ERFA_DJ00) + date2) / ERFA_DJY
StatusOf_strict(elapsed) ==
    IF DaysLT(DaysAbs(elapsed), HundredYears) THEN 0 ELSE 1

StatusOf(elapsed) ==
    IF DaysLE(DaysAbs(elapsed), HundredYears) THEN 0 ELSE 1

\* "Rotate from ecliptic to BCRS coordinates": the three assignments to row r
Rotated(pv, r) == [pv EXCEPT ![r] = [c \in 0 .. 2 |-> "computed"]]

\* pvh and pvb are the caller's arrays on entry
eraEpv00(date1, date2, pvh, pvb) ==
    LET elapsed == DaysAdd(DaysSub(date1, ERFA_DJ00), date2)
    IN  [jstat |-> StatusOf(elapsed),
         pvh   |-> Rotated(Rotated(pvh, 0), 1),
         pvb   |-> Rotated(Rotated(pvb, 0), 1),
         elapsed |-> elapsed]

\* void palEpv: what it hands back is the four output arrays
palEpv(date) ==
    LET era == eraEpv00(PAL__MJD0, date, PV("indeterminate"),
                        PV("indeterminate"))
    IN  [ph |-> era.pvh[0], vh |-> era.pvh[1],
         pb |-> era.pvb[0], vb |-> era.pvb[1]]

\* what earthOrbitVelocityBCRS returns: one double, the dot product
earthOrbitVelocityBCRS(dateTime) ==
    LET out == palEpv(modifiedJulianDate(dateTime))
    IN  [velocity |-> IF \A c \in 0 .. 2 : out.vb[c] = "computed"
                      THEN "computed" ELSE "indeterminate"]

EpvYears == {1899, 1900, 1901, 1999, 2000, 2001, 2099, 2100, 2101}
EpvDays == { <<1, 1>>, <<6, 15>>, <<12, 31>> }
EpvTimes == { <<0, 0, 0>>, <<11, 59, 59>>, <<12, 0, 0>>, <<12, 0, 1>> }

EpvIdle ==
    [fn |-> "none", dateTime |-> NoDateTime,
     era |-> [jstat |-> 0, pvh |-> PV("indeterminate"),
              pvb |-> PV("indeterminate"), elapsed |-> Days(0, 0)],
     pal |-> [ph |-> Vec3("indeterminate"), vh |-> Vec3("indeterminate"),
              pb |-> Vec3("indeterminate"), vb |-> Vec3("indeterminate")],
     ret |-> [velocity |-> "indeterminate"]]

\* one call of earthOrbitVelocityBCRS; era, pal and ret record what eraEpv00
\* returned to palEpv, what palEpv handed to its caller, and the final result
Call_earthOrbitVelocityBCRS ==
    /\ \E yy \in EpvYears, md \in EpvDays, tod \in EpvTimes :
          LET dateTime == DateTime(yy, md[1], md[2], tod[1], tod[2], tod[3])
              date == modifiedJulianDate(dateTime)
          IN  epv' = [fn |-> "earthOrbitVelocityBCRS", dateTime |-> dateTime,
                      era |-> eraEpv00(PAL__MJD0, date, PV("indeterminate"),
                                       PV("indeterminate")),
                      pal |-> palEpv(date),
                      ret |-> earthOrbitVelocityBCRS(dateTime)]
    /\ UNCHANGED <<objVars, memoVars, jdVars, refro, xy, conv>>

(***************************************************************************)
(* The stereographic XY85 / XY30 mappings.  Angles are whole degrees.  An  *)
(* output is either an exact number of degrees set by an explicit branch,  *)
(* or the named trigonometric expression of the (folded) inputs.  divZero  *)
(* records that a quotient with a divisor equal to 0.0 was evaluated: in   *)
(* binary64, sin(elr) is 0.0 only for el = 0, and cos of a multiple of 90  *)
(* degrees is never 0.0 (cos is positive at 90 and negative at 270).       *)
(***************************************************************************)
Exact(deg) == [kind |-> "exact", deg |-> deg, a |-> 0, b |-> 0]
Expr(kind, a, b) == [kind |-> kind, deg |-> 0, a |-> a, b |-> b]

\* An azimuth argument is az whole degrees, or with below the double next
\* below az degrees.  az - 360.0 and az - 180.0 are exact; az + 180.0 rounds
\* a double next below az up to az + 180 (179.99999999999997 + 180.0 is
\* 360.0).
AzAlt(az, alt, below) == [az |-> az, alt |-> alt, below |-> below]

\* the C comparison  az >= c  for whole degrees c
AzAtLeast(aa, c) == aa.az > c \/ (aa.az = c /\ ~aa.below)

\* if (az >= 360.0) az -= 360.0;  if (el > 90.0) { el = 180.0 - el; az +-= 180.0 }
Folded(aa) ==
    LET a1 == IF AzAtLeast(aa, 360) THEN AzAlt(aa.az - 360, aa.alt, aa.below)
              ELSE aa
    IN  IF aa.alt > 90
        THEN (IF AzAtLeast(a1, 180)
              THEN AzAlt(a1.az - 180, 180 - aa.alt, a1.below)
              ELSE AzAlt(a1.az + 180, 180 - aa.alt, FALSE))
        ELSE a1

\* atan(-(cos(elr)/sin(elr)) * cos(azr)) when sin(elr) is 0.0: atan(-/+ Inf)
AtanOfInfinity85(az) ==
    IF (az % 360) <= 90 \/ (az % 360) > 270 THEN Exact(-90) ELSE Exact(90)

azAltToXY85_azguard(aa) ==
    IF aa.az = 90
    THEN [x |-> Exact(0), y |-> Exact(0), divZero |-> FALSE, branch |-> "zenith",
          below |-> FALSE]
    ELSE LET f  == Folded(aa)
             az == f.az
             el == f.alt
             y  == Expr("asin(cos(el)*sin(az))", az, el)
         IN  IF az = 0 /\ ~f.below
             THEN [x |-> IF az = 90 \/ az = 270 THEN Exact(0)
                         ELSE IF az > 90 /\ az < 270 THEN Exact(90)
                         ELSE Exact(-90),
                   y |-> y, divZero |-> FALSE, branch |-> "explicit",
                   below |-> f.below]
             ELSE [x |-> IF el = 0 THEN AtanOfInfinity85(az)
                         ELSE Expr("atan(-cot(el)*cos(az))", az, el),
                   y |-> y, divZero |-> (el = 0), branch |-> "general",
                   below |-> f.below]

azAltToXY85(aa) ==
    IF aa.alt = 90
    THEN [x |-> Exact(0), y |-> Exact(0), divZero |-> FALSE, branch |-> "zenith",
          below |-> FALSE]
    ELSE LET f  == Folded(aa)
             az == f.az
             el == f.alt
             y  == Expr("asin(cos(el)*sin(az))", az, el)
         IN  IF az = 0 /\ ~f.below
             THEN [x |-> IF az = 90 \/ az = 270 THEN Exact(0)
                         ELSE IF az > 90 /\ az < 270 THEN Exact(90)
                         ELSE Exact(-90),
                   y |-> y, divZero |-> FALSE, branch |-> "explicit",
                   below |-> f.below]
             ELSE [x |-> IF el = 0 THEN AtanOfInfinity85(az)
                         ELSE Expr("atan(-cot(el)*cos(az))", az, el),
                   y |-> y, divZero |-> (el = 0), branch |-> "general",
                   below |-> f.below]

azAltToXY30(aa) ==
    IF aa.alt = 90
    THEN [x |-> Exact(0), y |-> Exact(0), divZero |-> FALSE, branch |-> "zenith",
          below |-> FALSE]
    ELSE LET f  == Folded(aa)
             az == f.az
             el == f.alt
             y  == Expr("asin(cos(el)*cos(az))", az, el)
         IN  IF el = 0
             THEN [x |-> IF az = 0 \/ az = 180 THEN Exact(0)
                         ELSE IF az >= 0 /\ az <= 180 THEN Exact(90)
                         ELSE Exact(-90),
                   y |-> y, divZero |-> FALSE, branch |-> "explicit",
                   below |-> f.below]
             ELSE [x |-> Expr("atan(cot(el)*sin(az))", az, el),
                   y |-> y, divZero |-> FALSE, branch |-> "general",
                   below |-> f.below]

(***************************************************************************)
(* Arguments and results of the inverse mappings.  An argument is a whole  *)
(* number of degrees, Deg(d), or Sub(s): a nonzero double of sign s and    *)
(* magnitude at most 1e-15 degree.  sin and tan of an argument, and the    *)
(* result of atan2, are kept by sign and size class: "zero" (+0.0 or       *)
(* -0.0), "tiny" (nonzero, at most 1e-15) or "normal".  A binary64 sum of  *)
(* a tiny value and a constant of whole degrees is the constant: the tiny  *)
(* part is below half an ulp of the sum and is rounded away.               *)
(***************************************************************************)
Deg(d) == [deg |-> d, sub |-> 0]
Sub(s) == [deg |-> 0, sub |-> s]

\* sign of an argument: 1, -1, or 0 for 0.0
Sgn(v) == IF v.deg > 0 THEN 1 ELSE IF v.deg < 0 THEN -1 ELSE v.sub

Cls(sgn, mag) == [sgn |-> sgn, mag |-> mag]

\* sin(xr), and tan(yr) for |y| < 90: odd, and +0.0 at +0.0
OddCls(v) ==
    IF v = Deg(0) THEN Cls(1, "zero")
    ELSE IF v.sub # 0 THEN Cls(v.sub, "tiny")
    ELSE Cls(Sgn(v), "normal")

NegCls(c) == [c EXCEPT !.sgn = -@]

\* a signed zero or tiny result, and a result strictly between lo and hi
Small(sgn, mag) == [kind |-> "small", sgn |-> sgn, mag |-> mag]
Within(lo, hi) == [kind |-> "within", lo |-> lo, hi |-> hi]

\* atan2(y, x) in degrees (C99 F.10.1.4; pi - tiny and pi/2 - tiny round to
\* pi and pi/2)
Atan2(yc, xc) ==
    IF yc.mag = "zero" \/ (yc.mag = "tiny" /\ xc.mag = "normal")
    THEN (IF xc.sgn > 0 THEN Small(yc.sgn, yc.mag) ELSE Exact(yc.sgn * 180))
    ELSE IF yc.mag = "normal" /\ xc.mag # "normal"
    THEN Exact(yc.sgn * 90)
    ELSE IF yc.sgn > 0
         THEN (IF xc.sgn > 0 THEN Within(0, 90) ELSE Within(90, 180))
         ELSE (IF xc.sgn > 0 THEN Within(-90, 0) ELSE Within(-180, -90))

\* r + c for a constant c of whole degrees, c # 0
PlusDegrees(r, c) ==
    IF r.kind = "exact" THEN Exact(r.deg + c)
    ELSE IF r.kind = "small" THEN Exact(c)
    ELSE IF r.kind = "within" THEN Within(r.lo + c, r.hi + c)
    ELSE r

\* the C comparison  r < 0.0
IsNegative(r) ==
    IF r.kind = "exact" THEN r.deg < 0
    ELSE IF r.kind = "small" THEN r.sgn < 0 /\ r.mag # "zero"
    ELSE r.hi <= 0

\* azr = atan2(...) + M_PI
PlusPi(r) == PlusDegrees(r, 180)

\* if (azr < 0.0) azr += 2.0*M_PI
WrapNegative(r) == IF IsNegative(r) THEN PlusDegrees(r, 360) ELSE r

\* tan(yr) is singular at y = +-90
xy85ToAzAlt(x, y) ==
    IF x = Deg(0) /\ y = Deg(0)
    THEN [az |-> Exact(0), alt |-> Exact(90), divZero |-> FALSE,
          branch |-> "zenith"]
    ELSE LET alt == Expr("asin(cos(y)*cos(x))", x, y)
         IN  IF x = Deg(0)
             THEN [az |-> IF Sgn(y) >= 0 THEN Exact(90) ELSE Exact(270),
                   alt |-> alt, divZero |-> FALSE, branch |-> "explicit"]
             ELSE IF y = Deg(90)
             THEN [az |-> Exact(90), alt |-> alt, divZero |-> FALSE,
                   branch |-> "explicit"]
             ELSE IF y = Deg(-90)
             THEN [az |-> Exact(270), alt |-> alt, divZero |-> FALSE,
                   branch |-> "explicit"]
             ELSE [az |-> PlusPi(Atan2(NegCls(OddCls(y)), OddCls(x))),
                   alt |-> alt, divZero |-> (y = Deg(90) \/ y = Deg(-90)),
                   branch |-> "general"]

xy30ToAzAlt(x, y) ==
    IF x = Deg(0) /\ y = Deg(0)
    THEN [az |-> Exact(0), alt |-> Exact(90), divZero |-> FALSE,
          branch |-> "zenith"]
    ELSE LET alt == Expr("asin(cos(y)*cos(x))", x, y)
         IN  IF y = Deg(0)
             THEN [az |-> IF Sgn(x) >= 0 THEN Exact(90) ELSE Exact(270),
                   alt |-> alt, divZero |-> FALSE, branch |-> "explicit"]
             ELSE IF y = Deg(90)
             THEN [az |-> Exact(0), alt |-> alt, divZero |-> FALSE,
                   branch |-> "explicit"]
             ELSE IF y = Deg(-90)
             THEN [az |-> Exact(180), alt |-> alt, divZero |-> FALSE,
                   branch |-> "explicit"]
             ELSE [az |-> WrapNegative(Atan2(OddCls(x), OddCls(y))),
                   alt |-> alt, divZero |-> (y = Deg(90) \/ y = Deg(-90)),
                   branch |-> "general"]

Azimuths == {0, 45, 90, 135, 180, 225, 270, 315, 360, 405}
Altitudes == {-90, -45, 0, 30, 45, 90, 135, 180}
\* azimuths also tried as the double next below them
AzimuthsBelow == {90, 180, 360}
PlaneAngles ==
    {Deg(d) : d \in {-90, -60, -45, -30, 0, 30, 45, 60, 90}}
        \cup {Sub(-1), Sub(1)}

XYIdle == [fn |-> "none", in1 |-> 0, in2 |-> 0,
           out |-> [x |-> Exact(0), y |-> Exact(0), divZero |-> FALSE,
                    branch |-> "none"]]

Call_azAltToXY85 ==
    /\ \E az \in Azimuths, alt \in Altitudes, below \in BOOLEAN :
          /\ below => az \in AzimuthsBelow
          /\ xy' = [fn |-> "azAltToXY85", in1 |-> az, in2 |-> alt,
                    below |-> below,
                    out |-> azAltToXY85(AzAlt(az, alt, below))]
    /\ UNCHANGED <<objVars, memoVars, jdVars, refro, epv, conv>>

Call_azAltToXY30 ==
    /\ \E az \in Azimuths, alt \in Altitudes, below \in BOOLEAN :
          /\ below => az \in AzimuthsBelow
          /\ xy' = [fn |-> "azAltToXY30", in1 |-> az, in2 |-> alt,
                    below |-> below,
                    out |-> azAltToXY30(AzAlt(az, alt, below))]
    /\ UNCHANGED <<objVars, memoVars, jdVars, refro, epv, conv>>

Call_xy85ToAzAlt ==
    /\ \E x \in PlaneAngles, y \in PlaneAngles :
          xy' = [fn |-> "xy85ToAzAlt", in1 |-> x, in2 |-> y,
                 out |-> xy85ToAzAlt(x, y)]
    /\ UNCHANGED <<objVars, memoVars, jdVars, refro, epv, conv>>

Call_xy30ToAzAlt ==
    /\ \E x \in PlaneAngles, y \in PlaneAngles :
          xy' = [fn |-> "xy30ToAzAlt", in1 |-> x, in2 |-> y,
                 out |-> xy30ToAzAlt(x, y)]
    /\ UNCHANGED <<objVars, memoVars, jdVars, refro, epv, conv>>

(***************************************************************************)
(* The coordinate and time conversions below are pure functions of their   *)
(* arguments (and of the memoized epochs); conv records the function last  *)
(* called, its arguments and what it returned.                             *)
(***************************************************************************)
NoConversion == [fn |-> "none"]

\* a result that is not a number
NaN == [kind |-> "nan"]

(***************************************************************************)
(* Astronomy::raDecToAzAlt.  Right ascension is held in units of           *)
(* 1/15000000 hour, so that ra_deg = rd.ra * (360.0/24.0) is rd.ra         *)
(* micro-degrees; declination and latitude are whole degrees.  The         *)
(* arguments of asin and acos are kept by where the double lies: "one",    *)
(* "minusOne", "inside" (strictly between -1 and 1) or "outside" (beyond   *)
(* 1 in magnitude).  Where the exact value is 1 or -1 the rounding of the  *)
(* products and of the quotient decides between the neighbouring classes,  *)
(* and where numerator and denominator are both rounding residues the      *)
(* quotient can be any double.                                             *)
(***************************************************************************)
RADec(ra, dec) == [ra |-> ra, dec |-> dec]

\* input values: right ascensions on and off the meridian of the date-times and longitudes
RightAscensions == {100460000, 280460000, 325460000}
Declinations == {-30, 0, 90}
Latitudes == {0, 45}
AzAltDateTimes ==
    { DateTime(2000, 1, 1, 12, 0, 0), DateTime(2024, 3, 20, 3, 6, 0) }
AzAltLongitudes == {0}

\* localSiderealTime(dt, longitude) for those date-times and longitudes and
\* either state of the static of jd_j2000, evaluated once
SiderealTimes ==
    [dt \in AzAltDateTimes |->
        [longitude \in AzAltLongitudes |->
            [static \in {PlusZero, jd_j2000(PlusZero).static} |->
                localSiderealTime(dt, longitude, static)]]]

\* ha = fmod(lst_deg - ra_deg, 360.0), in micro-degrees
HourAngle(rd, longitude, dt, static) ==
    CFmod(SiderealTimes[dt][longitude][static].ret - rd.ra, Turn)

\* sin(ha_rad) < 0.0; sin(degreesToRadians(180.0)) is a small positive
\* double and sin(degreesToRadians(-180.0)) a small negative one
SinNegative(ha) ==
    (-180 * MicroDeg <= ha /\ ha < 0) \/ ha > 180 * MicroDeg

\* sin(dec)*sin(lat) + cos(dec)*cos(lat)*cos(ha): exactly 1 at the zenith
\* and -1 at the nadir
SumOutcomes(dec, latitude, ha) ==
    IF (ha = 0 /\ dec = latitude)
       \/ (ha \in {-180 * MicroDeg, 180 * MicroDeg} /\ dec = -latitude)
    THEN {IF ha = 0 THEN "one" ELSE "minusOne", "inside", "outside"}
    ELSE {"inside"}

\* (sin(dec) - sin(alt)*sin(lat)) / (cos(alt)*cos(lat)): the cosine of the
\* azimuth, exactly 1 (due North) or -1 (due South) for a body on the
\* meridian; 0/0 at the zenith, at the nadir and at the poles of the Earth
QuotientOutcomes(dec, latitude, ha) ==
    LET upper == ha = 0
        lower == ha \in {-180 * MicroDeg, 180 * MicroDeg}
    IN  IF latitude \in {-90, 90}
           \/ (upper /\ dec = latitude) \/ (lower /\ dec = -latitude)
        THEN {"one", "minusOne", "inside", "outside"}
        ELSE IF dec = 90 \/ (upper /\ dec > latitude)
                \/ (lower /\ dec > -latitude)
        THEN {"one", "inside", "outside"}
        ELSE IF dec = -90 \/ upper \/ lower
        THEN {"minusOne", "inside", "outside"}
        ELSE {"inside"}

\* radiansToDegrees(asin(v))
ArcSin(v) ==
    IF v = "one" THEN Exact(90)
    ELSE IF v = "minusOne" THEN Exact(-90)
    ELSE IF v = "inside" THEN Within(-90, 90)
    ELSE NaN

\* radiansToDegrees(acos(v))
ArcCos(v) ==
    IF v = "one" THEN Exact(0)
    ELSE IF v = "minusOne" THEN Exact(180)
    ELSE IF v = "inside" THEN Within(0, 180)
    ELSE NaN

\* 360.0 - a
FromTurn(a) ==
    IF a.kind = "exact" THEN Exact(360 - a.deg)
    ELSE IF a.kind = "within" THEN Within(360 - a.hi, 360 - a.lo)
    ELSE NaN

\* if (sin(ha_rad) < 0.0) az = a; else az = 360.0 - a
SelectAzimuth(ha, a) == IF SinNegative(ha) THEN a ELSE FromTurn(a)

\* fp: the coordinates precess returns (used when j2000 is set) and the
\* classes of the arguments of asin and acos
raDecToAzAlt(rd, latitude, longitude, dt, j2000flag, static, fp) ==
    LET ep  == IF j2000flag THEN jd_j2000(static).static ELSE static
        rdp == IF j2000flag THEN fp.precessed ELSE rd
        lst == SiderealTimes[dt][longitude][ep]
        ha  == CFmod(lst.ret - rdp.ra, Turn)
        a   == ArcCos(fp.quotient)
    IN  [aa |-> [alt |-> ArcSin(fp.sum), az |-> SelectAzimuth(ha, a)],
         ha |-> ha, a |-> a, static |-> lst.static]

Call_raDecToAzAlt ==
    \E ra \in RightAscensions, dec \in Declinations, latitude \in Latitudes,
       longitude \in AzAltLongitudes, dt \in AzAltDateTimes,
       j2000flag \in BOOLEAN, pra \in RightAscensions :
        /\ ~j2000flag => pra = ra
        /\ \E rdp \in {RADec(IF j2000flag THEN pra ELSE ra, dec)} :
           \E ha \in {HourAngle(rdp, longitude, dt, j2000)} :
           \E sum \in SumOutcomes(dec, latitude, ha),
              quotient \in QuotientOutcomes(dec, latitude, ha) :
           \E fp \in {[precessed |-> rdp, sum |-> sum, quotient |-> quotient]} :
           \E r \in {raDecToAzAlt(RADec(ra, dec), latitude, longitude, dt,
                                  j2000flag, j2000, fp)} :
              /\ sum # "inside" => quotient # "inside"
              /\ conv' = [fn |-> "raDecToAzAlt", rd |-> RADec(ra, dec),
                          latitude |-> latitude, longitude |-> longitude,
                          dt |-> dt, j2000 |-> j2000flag, fp |-> fp,
                          ha |-> r.ha, a |-> r.a, aa |-> r.aa]
              /\ j2000' = r.static
        \* precess calls jd_b1950()
        /\ b1950' = IF j2000flag THEN jd_b1950(b1950).static ELSE b1950
        /\ UNCHANGED <<objVars, last, thr, jdVars, refro, epv, xy>>

(***************************************************************************)
(* Astronomy::precess.  The rotation matrix and the rotated vector are     *)
(* sums of double products and are not computed: xp and yp are kept by     *)
(* sign and size class and zp by the class of the asin argument.  For      *)
(* jd_to = jd_from the matrix is the identity and the rotated vector is    *)
(* the input direction; otherwise it can be any direction, exact           *)
(* cancellation of xp to 0.0 included.                                     *)
(***************************************************************************)
\* cos(ra_rad) and sin(ra_rad) for ra_deg a multiple of 45 degrees: the
\* doubles cos(pi/2), sin(pi), cos(3*pi/2) are 6.1e-17, 1.2e-16, -1.8e-16
CosCls(deg) ==
    IF deg = 90 THEN Cls(1, "tiny") ELSE IF deg = 270 THEN Cls(-1, "tiny")
    ELSE IF deg < 90 \/ deg > 270 THEN Cls(1, "normal") ELSE Cls(-1, "normal")

SinCls(deg) ==
    IF deg = 0 THEN Cls(1, "zero") ELSE IF deg = 180 THEN Cls(1, "tiny")
    ELSE IF deg < 180 THEN Cls(1, "normal") ELSE Cls(-1, "normal")

AnyClass ==
    {Cls(sg, mg) : sg \in {-1, 1}, mg \in {"tiny", "normal"}}
        \cup {Cls(1, "zero")}

\* precession over the years covered moves a direction away from the poles
\* by less than 3 degrees of right ascension
NearAxis(ra, deg) ==
    LET away == Abs(ra - deg * MicroDeg)
    IN  away <= 3 * MicroDeg \/ away >= 357 * MicroDeg

\* xp, yp, zp after "Rotate", for declinations away from the poles: a
\* component that the rotation can carry through zero is of any class
RotatedOutcomes(rd_in, jd_from, jd_to) ==
    LET deg == rd_in.ra \div MicroDeg
    IN  IF jd_from = jd_to
        THEN {[xp |-> CosCls(deg), yp |-> SinCls(deg), zp |-> "inside"]}
        ELSE IF NearAxis(rd_in.ra, 90) \/ NearAxis(rd_in.ra, 270)
        THEN {[xp |-> xc, zp |-> "inside",
               yp |-> Cls(IF deg < 180 THEN 1 ELSE -1, "normal")] :
                 xc \in AnyClass}
        ELSE IF NearAxis(rd_in.ra, 0) \/ NearAxis(rd_in.ra, 180)
        THEN {[xp |-> Cls(IF deg < 90 \/ deg > 270 THEN 1 ELSE -1, "normal"),
               yp |-> yc, zp |-> "inside"] : yc \in AnyClass}
        ELSE {[xp |-> Cls(CosCls(deg).sgn, "normal"),
               yp |-> Cls(SinCls(deg).sgn, "normal"), zp |-> "inside"]}

\* the C comparisons  v < 0.0  and  v > 0.0
LessThanZero(c) == c.sgn < 0 /\ c.mag # "zero"
GreaterThanZero(c) == c.sgn > 0 /\ c.mag # "zero"

\* radiansToDegrees(atan(yp/xp)): the quotient is +-Inf for xp = 0.0, and
\* pi/2 - tiny rounds to pi/2
AtanOfQuotient(yc, xc) ==
    IF xc.mag = "zero"
    THEN (IF yc.mag = "zero" THEN NaN ELSE Exact(yc.sgn * xc.sgn * 90))
    ELSE IF yc.mag = "zero" \/ (yc.mag = "tiny" /\ xc.mag = "normal")
    THEN Small(yc.sgn * xc.sgn, yc.mag)
    ELSE IF yc.mag = "normal" /\ xc.mag = "tiny"
    THEN Exact(yc.sgn * xc.sgn * 90)
    ELSE IF yc.sgn * xc.sgn > 0 THEN Within(0, 90) ELSE Within(-90, 0)

\* rd_out.ra /= (360.0/24.0)
DegreesToHours(r) ==
    IF r.kind = "exact" THEN Exact(r.deg \div 15)
    ELSE IF r.kind = "within" THEN Within(r.lo \div 15, r.hi \div 15)
    ELSE r

precess(rd_in, jd_from, jd_to, rotated) ==
    LET xp == rotated.xp
        yp == rotated.yp
        at == AtanOfQuotient(yp, xp)
        ra == IF LessThanZero(xp) THEN PlusDegrees(at, 180)
              ELSE IF LessThanZero(yp) /\ GreaterThanZero(xp)
                   THEN PlusDegrees(at, 360)
                   ELSE at
    IN  [ra |-> DegreesToHours(ra), dec |-> ArcSin(rotated.zp)]

\* right ascensions (micro-degrees of arc), declinations and epochs
PrecessRightAscensions ==
    {d * MicroDeg : d \in {0, 45, 90, 135, 180, 225, 270, 315}}
        \cup {267760601, 359685665}
PrecessDeclinations == {-85, -30, 0, 30, 85}
PrecessEpochs ==
    { julianDate(2000, 1, 1, 12, 0, 0), julianDate(2024, 3, 20, 3, 6, 0),
      julianDate(1955, 12, 12, 16, 0, 0) }

Call_precess ==
    \E ra \in PrecessRightAscensions, dec \in PrecessDeclinations,
       jd_to \in PrecessEpochs :
        LET rd_in   == RADec(ra, dec)
            jd_from == julianDate(2000, 1, 1, 12, 0, 0)
        IN  /\ \E rotated \in RotatedOutcomes(rd_in, jd_from, jd_to) :
                  conv' = [fn |-> "precess", rd_in |-> rd_in,
                           jd_from |-> jd_from, jd_to |-> jd_to,
                           rotated |-> rotated,
                           rd_out |-> precess(rd_in, jd_from, jd_to, rotated)]
            /\ b1950' = jd_b1950(b1950).static
            /\ UNCHANGED <<objVars, j2000, last, thr, jdVars, refro, epv, xy>>

(***************************************************************************)
(* Astronomy::equatorialToGalactic and Astronomy::galacticToEquatorial.    *)
(* Both are spherical-triangle solutions about the North Galactic Pole     *)
(* returned by northGalacticPoleJ2000.  A direction is named by its        *)
(* coordinates about that pole: b, its angle from the galactic equator     *)
(* (what asin(sin(ngpDec)*sin(dec) + cos(ngpDec)*cos(dec)*cos(ra - ngpRa)) *)
(* is), and psi, its position angle at the pole counted from the North     *)
(* Celestial Pole, for which the atan2 of equatorialToGalactic is          *)
(* 90 degrees - psi and the angle lRad - ncpLRad of galacticToEquatorial   *)
(* is -psi.  Angles are [md, sub]: md micro-degrees plus a part of sign    *)
(* sub that is zero or a few ulps (below 2.8e-14 degree, half an ulp of    *)
(* 360).                                                                   *)
(***************************************************************************)
Fine(md, sub) == [md |-> md, sub |-> sub]
Direction(psi, b) == [psi |-> psi, b |-> b]

FineNeg(v) == Fine(-v.md, -v.sub)

\* the C comparisons  v < 0.0  and  v > c
FineNegative(v) == v.md < 0 \/ (v.md = 0 /\ v.sub < 0)
FineAbove(v, c) == v.md > c \/ (v.md = c /\ v.sub > 0)

\* the binary64 sum v + c, c # 0 whole micro-degrees: exact when the
\* micro-degrees cancel, and a v of a few ulps is rounded away
FineAdd(v, c) ==
    Fine(v.md + c, IF v.md = 0 THEN 0 ELSE v.sub)

\* an angle brought into the range of atan2
Reduce180(v) ==
    IF v.md > 180 * MicroDeg THEN Fine(v.md - Turn, v.sub)
    ELSE IF v.md < -180 * MicroDeg THEN Fine(v.md + Turn, v.sub)
    ELSE v

\* double lAscend = 33.0
lAscend == 33000000
\* Units::degreesToRadians(122.93129)
ncpL == 122931290

\* the direction eq in galactic coordinates
equatorialToGalactic(eq) ==
    LET lRad == Reduce180(FineAdd(FineNeg(eq.psi), 90 * MicroDeg))
        l0   == FineAdd(lRad, lAscend)
        l1   == IF FineNegative(l0) THEN FineAdd(l0, Turn) ELSE l0
        l2   == IF FineAbove(l1, Turn) THEN FineAdd(l1, -Turn) ELSE l1
    IN  [l |-> l2, b |-> eq.b]

\* atan2(y, x) + (ngpRaRad - M_PI) in hours, before the wrap: between
\* -11.15 and 12.86, by sign and size
RawRightAscensions ==
    {Within(-12, 0), Small(-1, "tiny"), Small(1, "zero"), Small(1, "tiny"),
     Within(0, 13)}

\* if (ra < 0.0) ra += 24.0; else if (ra >= 24.0) ra -= 24.0
WrapHours(r) ==
    IF IsNegative(r) THEN PlusDegrees(r, 24)
    ELSE IF (r.kind = "exact" /\ r.deg >= 24) \/ (r.kind = "within" /\ r.lo >= 24)
         THEN PlusDegrees(r, -24)
         ELSE r

\* the direction returned for galactic (l, b), and its right ascension and
\* declination; raw: the class of the unwrapped right ascension
galacticToEquatorial(l, b, raw) ==
    LET psi == Fine((ncpL - l.md) % Turn, -l.sub)
    IN  [eq |-> Direction(psi, b), ra |-> WrapHours(raw),
         dec |-> ArcSin("inside")]

PositionAngles ==
    {Fine(d * MicroDeg, 0) : d \in {0, 30, 90, 150, 180, 240, 300, 330}}
        \cup {Fine(123 * MicroDeg, sb) : sb \in {-1, 0, 1}}
GalacticLatitudes == {d * MicroDeg : d \in {-60, -30, 0, 30, 60}}
GalacticLongitudes ==
    {Fine(d * MicroDeg, 0) : d \in {0, 33, 90, 123, 180, 270, 359}}

Call_equatorialToGalactic ==
    /\ \E psi \in PositionAngles, b \in GalacticLatitudes :
          LET eq == Direction(psi, b)
          IN  conv' = [fn |-> "equatorialToGalactic", eq |-> eq,
                       out |-> equatorialToGalactic(eq)]
    /\ UNCHANGED <<objVars, memoVars, jdVars, refro, epv, xy>>

Call_galacticToEquatorial ==
    /\ \E l \in GalacticLongitudes, b \in GalacticLatitudes,
          raw \in RawRightAscensions :
          conv' = [fn |-> "galacticToEquatorial", l |-> l, b |-> b,
                   raw |-> raw, roundTrip |-> FALSE, eq |-> Direction(l, b),
                   out |-> galacticToEquatorial(l, b, raw)]
    /\ UNCHANGED <<objVars, memoVars, jdVars, refro, epv, xy>>

\* galacticToEquatorial applied to what equatorialToGalactic just returned
Call_galacticToEquatorial_back ==
    /\ conv.fn = "equatorialToGalactic"
    /\ \E raw \in RawRightAscensions :
          conv' = [fn |-> "galacticToEquatorial", l |-> conv.out.l,
                   b |-> conv.out.b, raw |-> raw, roundTrip |-> TRUE,
                   eq |-> conv.eq,
                   out |-> galacticToEquatorial(conv.out.l, conv.out.b, raw)]
    /\ UNCHANGED <<objVars, memoVars, jdVars, refro, epv, xy>>

(***************************************************************************)
(* Astronomy::dopplerToVelocity and Astronomy::velocityToDoppler, in       *)
(* binary64 arithmetic.  A double is [neg, hi, lo]: sign, whole part and   *)
(* fraction in units of 2^-30; every value met here is zero or at least    *)
(* 2^25 in magnitude, so its 53 significant bits end at or above 2^-28.    *)
(***************************************************************************)
\* const double Astronomy::m_speedOfLight = 299792458.0
m_speedOfLight == 299792458

FracUnit == 2^30

Binary64(neg, hi, lo) == [neg |-> neg, hi |-> hi, lo |-> lo]
WholeDouble(n) == Binary64(n < 0, IF n < 0 THEN -n ELSE n, 0)

BitLength(n) ==
    IF n >= FracUnit THEN 31
    ELSE CHOOSE k \in 0..30 : n < 2^k /\ (k = 0 \/ n >= 2^(k - 1))

\* round to nearest, ties to even, a magnitude hi + lo/2^30 to 53 bits
Round53(neg, hi, lo) ==
    IF hi = 0 /\ lo = 0 THEN Binary64(FALSE, 0, 0)
    ELSE LET step == 2^(BitLength(hi) - 23)
             q    == lo \div step
             r    == lo % step
             up   == IF 2 * r > step \/ (2 * r = step /\ q % 2 = 1) THEN 1 ELSE 0
             lo2  == (q + up) * step
         IN  IF lo2 = FracUnit THEN Binary64(neg, hi + 1, 0)
             ELSE Binary64(neg, hi, lo2)

\* the double nearest to n / d, n and d whole and positive
Divide(n, d) ==
    LET q    == n \div d
        F    == 53 - BitLength(q)
        sc   == (n % d) * 2^F
        m    == sc \div d
        r    == sc % d
        up   == IF 2 * r > d \/ (2 * r = d /\ m % 2 = 1) THEN 1 ELSE 0
        lo2  == (m + up) * 2^(30 - F)
    IN  IF lo2 = FracUnit THEN Binary64(FALSE, q + 1, 0)
        ELSE Binary64(FALSE, q, lo2)

MagnitudeLess(x, y) == x.hi < y.hi \/ (x.hi = y.hi /\ x.lo < y.lo)

\* the double nearest to x + y
Add(x, y) ==
    IF x.neg = y.neg
    THEN LET lo == x.lo + y.lo
         IN  IF lo >= FracUnit
             THEN Round53(x.neg, x.hi + y.hi + 1, lo - FracUnit)
             ELSE Round53(x.neg, x.hi + y.hi, lo)
    ELSE LET big   == IF MagnitudeLess(x, y) THEN y ELSE x
             small == IF MagnitudeLess(x, y) THEN x ELSE y
         IN  IF big.lo >= small.lo
             THEN Round53(big.neg, big.hi - small.hi, big.lo - small.lo)
             ELSE Round53(big.neg, big.hi - small.hi - 1,
                          big.lo + FracUnit - small.lo)

\* the double nearest to k * x, k a small whole number
MulSmall(k, x) ==
    LET half == 32768
        bl   == (x.lo % half) * k
        al   == (x.lo \div half) * k + (bl \div half)
    IN  Round53(x.neg, x.hi * k + (al \div half),
                (al % half) * half + (bl % half))

\* m_speedOfLight * f / f0 - m_speedOfLight, f and f0 whole hertz
dopplerToVelocity(f, f0) ==
    Add(Divide(m_speedOfLight * f, f0), WholeDouble(-m_speedOfLight))

velocityToDoppler_noshift(v, f0) ==
    [timesC |-> MulSmall(f0, v)]

\* f0 * (v + m_speedOfLight) / m_speedOfLight: the double nearest to
\* timesC / m_speedOfLight, named by its dividend.  A dividend one ulp away
\* from m_speedOfLight * n is more than half an ulp of n away in the
\* quotient, so the quotient is the whole number n only for that dividend.
velocityToDoppler(v, f0) ==
    [timesC |-> MulSmall(f0, Add(v, WholeDouble(m_speedOfLight)))]

\* the result compared with the double f:  result == f
EqualsHertz(result, f) == result.timesC = WholeDouble(m_speedOfLight * f)

\* |result - f| * m_speedOfLight in units of 2^-30, when below 1
ErrorTimesC(result, f) ==
    LET t == result.timesC
        e == m_speedOfLight * f
    IN  IF t.hi = e THEN t.lo
        ELSE IF t.hi = e - 1 THEN FracUnit - t.lo
        ELSE FracUnit

Frequencies == 1..6
Velocities == {WholeDouble(n * 29979245) : n \in -3..1}

Call_dopplerToVelocity ==
    /\ \E f \in Frequencies, f0 \in Frequencies :
          conv' = [fn |-> "dopplerToVelocity", f |-> f, f0 |-> f0,
                   out |-> dopplerToVelocity(f, f0)]
    /\ UNCHANGED <<objVars, memoVars, jdVars, refro, epv, xy>>

Call_velocityToDoppler ==
    /\ \E v \in Velocities, f0 \in Frequencies :
          conv' = [fn |-> "velocityToDoppler", v |-> v, f0 |-> f0,
                   roundTrip |-> FALSE, f |-> 0,
                   out |-> velocityToDoppler(v, f0)]
    /\ UNCHANGED <<objVars, memoVars, jdVars, refro, epv, xy>>

\* velocityToDoppler applied to what dopplerToVelocity just returned, with
\* the same f0
Call_velocityToDoppler_back ==
    /\ conv.fn = "dopplerToVelocity"
    /\ conv' = [fn |-> "velocityToDoppler", v |-> conv.out, f0 |-> conv.f0,
                roundTrip |-> TRUE, f |-> conv.f,
                out |-> velocityToDoppler(conv.out, conv.f0)]
    /\ UNCHANGED <<objVars, memoVars, jdVars, refro, epv, xy>>

(***************************************************************************)
(* Astronomy::julianDate and Astronomy::julianDateToDateTime in binary64.  *)
(* A Julian date of the years 1900 to 2100 lies in [2^21, 2^22), where     *)
(* doubles are 2^-31 day apart: it is [jdn, units], the day number and the *)
(* offset from it in units of 2^-31 day.  Each of the three additions of   *)
(* julianDate rounds its sum to that grid.                                 *)
(***************************************************************************)
HalfDayUnits == 2^30

\* secs / 86400 days rounded to the nearest 2^-31 day, 0 <= secs < 86400
RoundToGrid(secs) ==
    LET fb == FracBits(secs, 31)
    IN  IF 2 * fb.r > SecondsPerDay \/ (2 * fb.r = SecondsPerDay /\ fb.q % 2 = 1)
        THEN fb.q + 1 ELSE fb.q

\* julian_day + (hours/24.0 - 0.5) + minutes/(24.0*60.0)
\*            + seconds/(24.0*60.0*60.0)
julian_date(year, month, day, hours, minutes, seconds) ==
    [jdn   |-> julian_day(year, month, day),
     units |-> (RoundToGrid(hours * 3600) - HalfDayUnits)
               + RoundToGrid(minutes * 60) + RoundToGrid(seconds)]

\* QDateTime::toSecsSinceEpoch of a UTC date-time, as whole days since
\* 1970-01-01 and seconds of the day
SecsSinceEpoch(dateTime) ==
    [day |-> julian_day(dateTime.year, dateTime.month, dateTime.day) - 2440588,
     sec |-> dateTime.hour * 3600 + dateTime.minute * 60 + dateTime.second]

\* n * 86400 / 2^31 = n * 675 / 2^24 for 0 <= n < 2^31: whole seconds and
\* the rest in units of 2^-24 second
UnitsToSeconds(n) ==
    LET a  == n \div 16777216
        b  == n % 16777216
        t0 == 675 * (b % 4096)
        t1 == 675 * (b \div 4096) + (t0 \div 4096)
    IN  [sec  |-> 675 * a + (t1 \div 4096),
         frac |-> (t1 % 4096) * 4096 + (t0 % 4096)]

\* floor(log2 n) of a count of seconds [day, sec] >= 1 and below 2^32
Log2Seconds(p) ==
    IF p.day > 24855 \/ (p.day = 24855 /\ p.sec >= 11648) THEN 31
    ELSE BitLength(p.day * SecondsPerDay + p.sec) - 1

\* the second after [day, sec]
SuccSecond(p) ==
    IF p.sec = SecondsPerDay - 1 THEN [day |-> p.day + 1, sec |-> 0]
    ELSE [day |-> p.day, sec |-> p.sec + 1]

\* the qint64 that (jd - (epochDay - 0.5)) * 24.0*60.0*60.0 converts to:
\* the difference and the products by 24.0 and the
\* first 60.0 are exact, the last product is rounded to 53 bits, and the
\* conversion discards the fraction (towards zero)
SecsFromJulianDate(jd, epochDay) ==
    LET u     == UnitsToSeconds(jd.units + HalfDayUnits)
        fl    == [day |-> jd.jdn - epochDay, sec |-> u.sec]
        neg   == fl.day < 0
        \* whole part of the magnitude
        mag   == IF ~neg THEN fl
                 ELSE IF fl.sec = 0 THEN [day |-> -fl.day, sec |-> 0]
                 ELSE [day |-> -fl.day - 1, sec |-> SecondsPerDay - fl.sec]
        magfl == IF neg /\ u.frac > 0
                 THEN (IF mag.sec = 0
                       THEN [day |-> mag.day - 1, sec |-> SecondsPerDay - 1]
                       ELSE [day |-> mag.day, sec |-> mag.sec - 1])
                 ELSE mag
        k     == IF magfl.day = 0 /\ magfl.sec = 0 THEN 0 ELSE Log2Seconds(magfl)
        half  == IF k >= 29 THEN 2^(k - 29) ELSE 0
    IN  IF u.frac <= half THEN fl
        ELSE IF 16777216 - u.frac <= half THEN SuccSecond(fl)
        ELSE IF neg THEN SuccSecond(fl) ELSE fl

julianDateToDateTime_epoch(jd) == SecsFromJulianDate(jd, 2440587)

\* QDateTime::fromSecsSinceEpoch((jd - 2440587.5) * 24.0*60.0*60.0), named
\* by its seconds since the epoch; 2440587.5 is half a day before day
\* number 2440588
julianDateToDateTime(jd) == SecsFromJulianDate(jd, 2440588)

RoundTripDates ==
    { <<1900, 1, 1>>, <<1969, 12, 31>>, <<1970, 1, 1>>, <<2024, 3, 20>>,
      <<2038, 1, 19>>, <<2100, 12, 31>> }
RoundTripHours == {0, 3, 23}
RoundTripMinutes == {14, 59}
RoundTripSeconds == {0, 1, 7, 59}

\* Julian dates handed to julianDateToDateTime that are not results of
\* julianDate: whole and half days
JulianDates ==
    { [jdn |-> n, units |-> u] : n \in {2415021, 2440588, 2451545},
                                u \in {-HalfDayUnits, 0} }

Call_julianDate_binary64 ==
    /\ \E d \in RoundTripDates, hh \in RoundTripHours,
          mi \in RoundTripMinutes, ss \in RoundTripSeconds :
          LET dt == DateTime(d[1], d[2], d[3], hh, mi, ss)
          IN  conv' = [fn |-> "julianDate", dt |-> dt,
                       out |-> julian_date(d[1], d[2], d[3], hh, mi, ss)]
    /\ UNCHANGED <<objVars, memoVars, jdVars, refro, epv, xy>>

Call_julianDateToDateTime ==
    /\ \E jd \in JulianDates :
          conv' = [fn |-> "julianDateToDateTime", jd |-> jd,
                   roundTrip |-> FALSE, dt |-> NoDateTime,
                   out |-> julianDateToDateTime(jd)]
    /\ UNCHANGED <<objVars, memoVars, jdVars, refro, epv, xy>>

\* julianDateToDateTime applied to what julianDate just returned
Call_julianDateToDateTime_back ==
    /\ conv.fn = "julianDate"
    /\ conv' = [fn |-> "julianDateToDateTime", jd |-> conv.out,
                roundTrip |-> TRUE, dt |-> conv.dt,
                out |-> julianDateToDateTime(conv.out)]
    /\ UNCHANGED <<objVars, memoVars, jdVars, refro, epv, xy>>

(***************************************************************************)
(* Astronomy::sunrise.  The day count n = ceil(julianDate(date 00:00:00)   *)
(* - 2451545.0 + 69.184/86400.0) is julian_day(date) - 2451545, and        *)
(* jTransit = 2451545.0 + n - longitude/360.0 + (0.0053*sin(mRad)          *)
(* - 0.0069*sin(2.0*lambdaRad)).  The values of the series are inputs fp:  *)
(* eq, the bracketed correction in units of 2^-31 day (at most 0.0122      *)
(* day); dec, the Sun's declination asin(sin(lambdaRad)*sin(tiltRad)) in   *)
(* millidegrees (within the tilt); omega, omega0/360.0 in units of 2^-31   *)
(* day when the arccosine has a value; inside, whether its argument lies   *)
(* in [-1, 1]; riseUB and setUB, what the conversion of a NaN to qint64    *)
(* (undefined behaviour) yields for each result.                           *)
(***************************************************************************)
\* sin(degreesToRadians(-0.833)): the altitude of the Sun's centre at rise
\* and set, millidegrees
HorizonAltitude == -833

\* (sin(h0) - sin(lat)*sin(dec)) / (cos(lat)*cos(dec)) is at most 1 when
\* h0 <= 90 - |lat - dec| and at least -1 when h0 >= |lat + dec| - 90: the
\* outcomes of the test  -1 <= argument <= 1  (either, when the argument is
\* +-1 before rounding)
ArgumentInside(latitude, dec) ==
    LET hi == 90000 - Abs(latitude - dec)
        lo == Abs(latitude + dec) - 90000
    IN  IF lo < HorizonAltitude /\ HorizonAltitude < hi THEN {TRUE}
        ELSE IF HorizonAltitude < lo \/ hi < HorizonAltitude THEN {FALSE}
        ELSE {TRUE, FALSE}

\* jd + w and jd - w on the 2^-31 day grid, 0 <= w <= 2^30
PlusUnits(jd, w) ==
    IF jd.units >= HalfDayUnits - w
    THEN [jdn |-> jd.jdn + 1, units |-> ((jd.units - HalfDayUnits) + w) - HalfDayUnits]
    ELSE [jdn |-> jd.jdn, units |-> jd.units + w]
MinusUnits(jd, w) ==
    IF jd.units < w - HalfDayUnits
    THEN [jdn |-> jd.jdn - 1, units |-> ((jd.units + HalfDayUnits) - w) + HalfDayUnits]
    ELSE [jdn |-> jd.jdn, units |-> jd.units - w]

\* longitude / 360.0 days in units of 2^-31 day, longitude whole degrees
\* that are multiples of 45
LongitudeUnits(longitude) == (longitude \div 45) * 268435456

jTransit(date, longitude, eq) ==
    LET noon  == [jdn |-> julian_day(date[1], date[2], date[3]), units |-> 0]
        jStar == IF longitude >= 0 THEN MinusUnits(noon, LongitudeUnits(longitude))
                 ELSE PlusUnits(noon, LongitudeUnits(-longitude))
    IN  IF eq >= 0 THEN PlusUnits(jStar, eq) ELSE MinusUnits(jStar, -eq)

Time(t) == [nan |-> FALSE, t |-> t]
FromNaN(ub) == [nan |-> TRUE, t |-> ub]

\* what (qint64) NaN yields: the x86-64 conversion gives INT64_MIN, the
\* AArch64 one 0
UndefinedConversions == {"INT64_MIN", "0"}

sunrise_clamped(date, latitude, longitude, fp) ==
    LET jt == jTransit(date, longitude, fp.eq)
        w  == IF fp.inside THEN fp.omega ELSE 0
    IN  [transit |-> jt, inside |-> fp.inside,
         rise |-> Time(julianDateToDateTime(MinusUnits(jt, w))),
         set  |-> Time(julianDateToDateTime(PlusUnits(jt, w)))]

\* rise and set for the date, with the transit they are formed about
sunrise(date, latitude, longitude, fp) ==
    LET jt == jTransit(date, longitude, fp.eq)
    IN  IF fp.inside
        THEN [transit |-> jt, inside |-> TRUE,
              rise |-> Time(julianDateToDateTime(MinusUnits(jt, fp.omega))),
              set  |-> Time(julianDateToDateTime(PlusUnits(jt, fp.omega)))]
        ELSE [transit |-> jt, inside |-> FALSE,
              rise |-> FromNaN(fp.riseUB), set |-> FromNaN(fp.setUB)]

SunDates == { <<1969, 6, 21>>, <<2024, 12, 21>> }
SunLatitudes == {0, 45000, 65728, 80000}
SunLongitudes == {-180, 90}
SunDeclinations == {-23439, 23439}
EquationOfTime == {-26000000, 123457}
HourAngles == {0, 536870917, 1073741824}

Call_sunrise ==
    /\ \E date \in SunDates, latitude \in SunLatitudes,
          longitude \in SunLongitudes, dec \in SunDeclinations,
          eq \in EquationOfTime, omega \in HourAngles,
          ub \in UndefinedConversions \X UndefinedConversions :
          \E inside \in ArgumentInside(latitude, dec) :
             LET fp == [eq |-> eq, dec |-> dec, inside |-> inside,
                        omega |-> IF inside THEN omega ELSE 0,
                        riseUB |-> IF inside THEN "0" ELSE ub[1],
                        setUB |-> IF inside THEN "0" ELSE ub[2]]
             IN  conv' = [fn |-> "sunrise", date |-> date,
                          latitude |-> latitude, longitude |-> longitude,
                          fp |-> fp,
                          out |-> sunrise(date, latitude, longitude, fp)]
    /\ UNCHANGED <<objVars, memoVars, jdVars, refro, epv, xy>>

(***************************************************************************)
(* palRefz and refractionPAL.  Zenith distances are whole degrees.  The    *)
(* refraction ref of palRefz is kept as the three quantities that          *)
(* determine it for one pair refa, refb: the zenith distance zu1 the       *)
(* closed form is evaluated at, whether the high-ZD polynomial is applied, *)
(* and the elevation e it is applied at.                                   *)
(*                                                                         *)
(* refractionPAL returns z - radiansToDegrees(zr) with zr = zu - ref, so   *)
(* the double it returns is z minus a double y next to z - c, c being ref  *)
(* in degrees.  Lengths are in quarters of 2^-46 degree, relative to a     *)
(* multiple of 2^-42 degree below c: frac is c in that scale.  The doubles *)
(* next to z - c are Spacing(z) apart, and y is one of the four nearest,   *)
(* which of them being decided by the roundings of zu, of zu - ref and of  *)
(* the two conversions of Units.  The subtraction z - y is exact.          *)
(***************************************************************************)
DMIN(a, b) == IF a < b THEN a ELSE b

\* D93 of palRefz, and Z83 in degrees
D93 == 93
Z83 == 83

\* the refraction of palRefz with the cap on e left out
palRefz_uncapped(zu) ==
    LET zu1 == DMIN(zu, Z83)
    IN  IF zu > zu1
        THEN [zu1 |-> zu1, high |-> TRUE, e |-> 90 - zu]
        ELSE [zu1 |-> zu1, high |-> FALSE, e |-> 0]

\* ref of palRefz: the closed form at zu1 = DMIN(zu, Z83), and for zu > zu1
\* the polynomial in e = 90 - DMIN(D93, zu)
palRefz(zu) ==
    LET zu1 == DMIN(zu, Z83)
    IN  IF zu > zu1
        THEN [zu1 |-> zu1, high |-> TRUE, e |-> 90 - DMIN(D93, zu)]
        ELSE [zu1 |-> zu1, high |-> FALSE, e |-> 0]

\* distance between neighbouring doubles at z - c for a refraction c between
\* 0 and 2 degrees: 2^-45 degree from 128 on, 2^-46 from 64 on, ...
Spacing(z) ==
    IF z >= 130 THEN 8 ELSE IF z >= 66 THEN 4 ELSE IF z >= 34 THEN 2 ELSE 1

\* the doubles next to z - c that radiansToDegrees(zr) can be
RoundingSteps == -1 .. 2

\* return z - Units::radiansToDegrees(zr)
refractionPAL(alt, frac, step) ==
    LET z == 90 - alt
        g == Spacing(z)
        y == g * ((0 - frac) \div g) + step * g
    IN  [ref |-> palRefz(z), rel |-> 0 - y]

RefzAltitudes == {45, 10, 7, 6, 0, -3, -4, -10, -38, -40, -45, -90}
RefractionFractions == 0 .. 15

Call_refractionPAL ==
    /\ \E alt \in RefzAltitudes, frac \in RefractionFractions,
          step \in RoundingSteps :
          conv' = [fn |-> "refractionPAL", alt |-> alt, frac |-> frac,
                   out |-> refractionPAL(alt, frac, step)]
    /\ UNCHANGED <<objVars, memoVars, jdVars, refro, epv, xy>>

(***************************************************************************)
(* palRefro: the sums of the strip-doubling quadrature.  A grid point      *)
(* z0 + h*i of a pass with is strips, h = zrange/is, is named by its       *)
(* position on the grid of MaxStrips strips (is is 8 times a power of two, *)
(* so h*i is the same double on every grid the point belongs to).  A sum   *)
(* of integrand values is the bag of the points whose values were added.   *)
(* The integrands are those whose estimate has converged once MaxStrips    *)
(* strips are reached.                                                     *)
(***************************************************************************)
\* the number of times the strips are doubled before the estimate converges
MaxDoublings == 4
MaxStrips == 8 * 2^MaxDoublings

GridPoint(i, strips) == i * (MaxStrips \div strips)

QuadIdle ==
    [pc |-> "idle", k |-> 0, is |-> 0, n |-> 0, i |-> 0, loop |-> 0,
     fo |-> EmptyBag, fe |-> EmptyBag, evaluated |-> EmptyBag]

\* if (n==1 && i%2 == 0) fe += f; else fo += f;
AddsToEven(n, i) == n = 1 /\ i % 2 = 0

NextEven_kept(fe, fo) == fe

\* fe += fo: the sum of all current values is the next pass's even sum
NextEven(fe, fo) == fe (+) fo

\* for (k=1; k<=2; k++): is = 8, fo = 0.0, fe = 0.0, n = 1, loop = 1
Quad_Layer ==
    /\ \/ quad.pc \in {"idle", "done"}
       \/ quad.pc = "while" /\ quad.loop = 0 /\ quad.k < 2
    /\ quad' = [QuadIdle EXCEPT !.pc = "while", !.is = 8, !.n = 1, !.loop = 1,
                                !.k = IF quad.pc = "while" THEN 2 ELSE 1]
    /\ UNCHANGED <<callVars, czml, swg>>

\* while (loop): h = zrange/is, i = 1
Quad_Pass ==
    /\ quad.pc = "while"
    /\ quad.loop # 0
    /\ quad' = [quad EXCEPT !.pc = "for", !.i = 1]
    /\ UNCHANGED <<callVars, czml, swg>>

\* body of  for (i=1; i<is; i+=n): the integrand at z0 + h*i is added
Quad_Point ==
    /\ quad.pc = "for"
    /\ quad.i < quad.is
    /\ \E f \in {SetToBag({GridPoint(quad.i, quad.is)})} :
          quad' = IF AddsToEven(quad.n, quad.i)
                  THEN [quad EXCEPT !.fe = @ (+) f, !.evaluated = @ (+) f,
                                    !.i = @ + quad.n]
                  ELSE [quad EXCEPT !.fo = @ (+) f, !.evaluated = @ (+) f,
                                    !.i = @ + quad.n]
    /\ UNCHANGED <<callVars, czml, swg>>

\* refp = h*(fb+4.0*fo+2.0*fe+ff)/3.0 and the convergence test
Quad_Simpson ==
    /\ quad.pc = "for"
    /\ quad.i >= quad.is
    /\ \E exceeds \in BOOLEAN :
          /\ exceeds => quad.is < MaxStrips
          /\ quad' = IF MustRefine(exceeds, quad.is)
                     THEN [quad EXCEPT !.is = NextStrips(quad.is),
                                       !.fe = NextEven(quad.fe, quad.fo),
                                       !.fo = EmptyBag, !.n = 2,
                                       !.pc = "while"]
                     ELSE [quad EXCEPT !.loop = 0, !.pc = "while"]
    /\ UNCHANGED <<callVars, czml, swg>>

\* after the stratosphere the two components are combined
Quad_Return ==
    /\ quad.pc = "while"
    /\ quad.loop = 0
    /\ quad.k >= 2
    /\ quad' = [quad EXCEPT !.pc = "done"]
    /\ UNCHANGED <<callVars, czml, swg>>

(***************************************************************************)
(* CZML::update.  The CZML object keeps three hashes keyed by item name:   *)
(* m_ids (time first seen), m_lastPosition (coordinate array last sent)    *)
(* and m_hasMoved.  A hash is a function on the set of its keys.  Times    *)
(* are ticks of the clock; a longitude, latitude, altitude triple is named *)
(* by a number; a track is a sequence of [time, at] points.  A JSON object *)
(* is a function on the set of its member names; the members point,        *)
(* model or billboard, label and description, which are built from the     *)
(* item alone, are the one member "graphics".                              *)
(***************************************************************************)
Ticks == 0 .. 1

Ids == {"a", "b"}
Places == 1 .. 2
NoMembers == [name \in {} |-> 0]
NoObject == NoMembers

\* the object after construction: empty hashes
CZML ==
    [now |-> 0, m_ids |-> NoMembers, m_lastPosition |-> NoMembers,
     m_hasMoved |-> NoMembers,
     call |-> NoMembers, obj |-> NoObject,
     first |-> NoMembers, differed |-> {}, extrapolated |-> {}]

Contains(hash, key) == key \in DOMAIN hash

\* QHash::insert: the value of an existing key is replaced
Insert(hash, key, value) ==
    [k \in DOMAIN hash \cup {key} |-> IF k = key THEN value ELSE hash[k]]

\* QHash::value: a default-constructed value for a missing key
Value(hash, key, default) == IF Contains(hash, key) THEN hash[key] ELSE default

\* the date-time used for m_ids: the end of the taken track, or the clock
FirstSeen(mapItem, now) ==
    IF Len(mapItem.m_takenTrack) > 0
    THEN mapItem.m_takenTrack[Len(mapItem.m_takenTrack)].time
    ELSE now

Reverse(track) == [i \in 1 .. Len(track) |-> track[Len(track) + 1 - i]]

\* the cartographicDegrees array of an item that is not being removed
Coords(mapItem) ==
    IF ~mapItem.m_fixedPosition /\ Len(mapItem.m_predictedTrack) > 0
    THEN mapItem.m_takenTrack \o Reverse(mapItem.m_predictedTrack)
    ELSE IF ~mapItem.m_fixedPosition /\ mapItem.m_positionDateTime >= 0
         THEN <<[time |-> mapItem.m_positionDateTime, at |-> mapItem.m_place]>>
         ELSE <<[time |-> -1, at |-> mapItem.m_place]>>

\* the insertion into m_hasMoved with the test on the stored array left out
Moved_always(hasMoved, lastPosition, id, coords) ==
    ~Contains(hasMoved, id) /\ Contains(lastPosition, id)

\* !hasMoved && m_lastPosition.contains(id) && (m_lastPosition.value(id) != coords)
Moved(hasMoved, lastPosition, id, coords) ==
    /\ ~Contains(hasMoved, id)
    /\ Contains(lastPosition, id)
    /\ lastPosition[id] # coords

\* m_ids after  if (!existingId) m_ids.insert(id, dt)  with the test left out
FirstSeenKept_overwritten(ids, id, dt) == Insert(ids, id, dt)

\* bool existingId = m_ids.contains(id); if (!existingId) m_ids.insert(id, dt);
FirstSeenKept(ids, id, dt) ==
    IF Contains(ids, id) THEN ids ELSE Insert(ids, id, dt)

\* m_lastPosition after an update that stores the array on removal too
Stored_always(lastPosition, id, coords, removeObj) ==
    Insert(lastPosition, id, coords)

\* if (!removeObj) { ... m_lastPosition.insert(id, coords); }
Stored(lastPosition, id, coords, removeObj) ==
    IF removeObj THEN lastPosition ELSE Insert(lastPosition, id, coords)

\* QJsonObject CZML::update(MapItem *mapItem, bool isTarget, bool isSelected),
\* called at time now: the hashes afterwards and the object returned
update(c, mapItem, now) ==
    LET id == mapItem.m_name
        ids == FirstSeenKept(c.m_ids, id, FirstSeen(mapItem, now))
        removeObj == mapItem.m_image = ""
        fixedPosition == mapItem.m_fixedPosition
        taken == Len(mapItem.m_takenTrack)
        predicted == Len(mapItem.m_predictedTrack)
        coords == IF removeObj THEN Value(c.m_lastPosition, id, <<>>)
                  ELSE Coords(mapItem)
        moved == /\ ~fixedPosition
                 /\ predicted = 0
                 /\ Moved(c.m_hasMoved, c.m_lastPosition, id, coords)
        moves == IF moved THEN Insert(c.m_hasMoved, id, TRUE) ELSE c.m_hasMoved
        position ==
            [cartographicDegrees |-> coords]
            @@ (IF ~fixedPosition /\ predicted = 0
                THEN (IF Contains(moves, id)
                      THEN [forwardExtrapolationType |-> "EXTRAPOLATE",
                            forwardExtrapolationDuration |-> 60]
                      ELSE [forwardExtrapolationType |-> "HOLD"])
                ELSE NoMembers)
        noPosition == [cartographicDegrees |-> coords,
                       forwardExtrapolationType |-> "NONE"]
        availability ==
            IF taken > 0 /\ predicted > 0
            THEN [start |-> mapItem.m_takenTrack[taken].time,
                  stop |-> mapItem.m_predictedTrack[predicted].time,
                  addSecs |-> 0]
            ELSE [start |-> ids[id], stop |-> now, addSecs |-> 60]
        obj == [id |-> id]
               @@ (IF ~removeObj
                   THEN [position |-> position, graphics |-> TRUE]
                        @@ (IF ~fixedPosition
                            THEN [orientation |-> TRUE, path |-> TRUE,
                                  availability |-> availability]
                            ELSE NoMembers)
                   ELSE [position |-> noPosition])
               @@ (IF mapItem.m_altitudeReference = 3
                   THEN [altitudeReference |-> "CLIP_TO_GROUND"]
                   ELSE NoMembers)
    IN  [m_ids |-> ids,
         m_lastPosition |-> Stored(c.m_lastPosition, id, coords, removeObj),
         m_hasMoved |-> moves,
         obj |-> obj]

TakenTracks == {<<>>, <<[time |-> 0, at |-> 1]>>}
PredictedTracks == {<<>>, <<[time |-> 1, at |-> 2]>>}
\* item "a" in every configuration; "b" is a second moving item without
\* tracks that is added, moved and removed in between
MapItems ==
    [m_name : {"a"}, m_image : {"", "aircraft.png"}, m_fixedPosition : BOOLEAN,
     m_takenTrack : TakenTracks, m_predictedTrack : PredictedTracks,
     m_positionDateTime : {-1}, m_place : Places,
     m_altitudeReference : {0, 3}]
    \cup
    [m_name : {"b"}, m_image : {"", "ship.png"}, m_fixedPosition : {FALSE},
     m_takenTrack : {<<>>}, m_predictedTrack : {<<>>},
     m_positionDateTime : {-1}, m_place : Places,
     m_altitudeReference : {0}]

\* one call of update; first, differed and extrapolated record, for each id,
\* the date-time of its first update, whether an update has supplied an
\* array different from the stored one, and whether EXTRAPOLATE was emitted
Call_update ==
    /\ \E mapItem \in MapItems, now \in Ticks :
          /\ now >= czml.now
          /\ \E r \in {update(czml, mapItem, now)} :
                czml' = [now |-> now,
                         m_ids |-> r.m_ids,
                         m_lastPosition |-> r.m_lastPosition,
                         m_hasMoved |-> r.m_hasMoved,
                         call |-> mapItem,
                         obj |-> r.obj,
                         first |-> IF Contains(czml.first, mapItem.m_name)
                                   THEN czml.first
                                   ELSE Insert(czml.first, mapItem.m_name,
                                               FirstSeen(mapItem, now)),
                         differed |->
                            IF /\ mapItem.m_image # ""
                               /\ Contains(czml.m_lastPosition, mapItem.m_name)
                               /\ czml.m_lastPosition[mapItem.m_name] # Coords(mapItem)
                            THEN czml.differed \cup {mapItem.m_name}
                            ELSE czml.differed,
                         extrapolated |->
                            IF /\ "forwardExtrapolationType" \in DOMAIN r.obj.position
                               /\ r.obj.position.forwardExtrapolationType = "EXTRAPOLATE"
                            THEN czml.extrapolated \cup {mapItem.m_name}
                            ELSE czml.extrapolated]
    /\ UNCHANGED <<callVars, quad, swg>>

(***************************************************************************)
(* Astronomy::moonDays.  The value returned is the double                  *)
(* d + hour/24.0 + minute/1440.0 + second/86400.0 with |d| < 2^16: the     *)
(* doubles there are 2^-37 day apart or closer, so it is kept as the day   *)
(* count d and the seconds of the day, from which it differs by less than  *)
(* 2^-35 day.                                                              *)
(***************************************************************************)
\* the day count with (m-9)/7 rounded towards minus infinity
moonDays_floor(dateTime) ==
    LET y == dateTime.year
        m == dateTime.month
        D == dateTime.day
    IN  [d |-> 367 * y - CDiv(7 * (y + CDiv(m + 9, 12)), 4)
               - CDiv(3 * (CDiv(y + ((m - 9) \div 7), 100) + 1), 4)
               + CDiv(275 * m, 9) + D - 730515,
         sec |-> dateTime.hour * 3600 + dateTime.minute * 60 + dateTime.second]

\* int d = 367 * y - 7 * (y + (m+9)/12) / 4 - 3 * ((y + (m-9)/7) / 100 + 1) / 4
\*         + 275*m/9 + D - 730515
moonDays(dateTime) ==
    LET y == dateTime.year
        m == dateTime.month
        D == dateTime.day
    IN  [d |-> 367 * y - CDiv(7 * (y + CDiv(m + 9, 12)), 4)
               - CDiv(3 * (CDiv(y + CDiv(m - 9, 7), 100) + 1), 4)
               + CDiv(275 * m, 9) + D - 730515,
         sec |-> dateTime.hour * 3600 + dateTime.minute * 60 + dateTime.second]

\* julianDate(QDateTime dt) in binary64
julianDateBinary64(dateTime) ==
    julian_date(dateTime.year, dateTime.month, dateTime.day,
                dateTime.hour, dateTime.minute, dateTime.second)

MoonTimes == { <<0, 0, 1>>, <<23, 59, 59>> }

\* both functions are called for the first day of the range
Call_moonDays ==
    /\ conv.fn # "moonDays"
    /\ \E tod \in MoonTimes :
          \E dt \in {DateTime(MinYear, 1, 1, tod[1], tod[2], tod[3])} :
             conv' = [fn |-> "moonDays", dateTime |-> dt,
                      out |-> moonDays(dt), jd |-> julianDateBinary64(dt)]
    /\ UNCHANGED <<objVars, memoVars, jdVars, refro, epv, xy>>

\* both functions are called for the day after
Call_moonDays_NextDay ==
    /\ conv.fn = "moonDays"
    /\ conv.dateTime.year <= MaxYear
    /\ \E dt \in {NextDay(conv.dateTime)} :
          conv' = [fn |-> "moonDays", dateTime |-> dt,
                   out |-> moonDays(dt), jd |-> julianDateBinary64(dt)]
    /\ UNCHANGED <<objVars, memoVars, jdVars, refro, epv, xy>>

(***************************************************************************)
(* Astronomy::lstAndRAToLongitude.  Angles are Fine(md, sub) with sub in   *)
(* steps of 2^-45 degree, the distance between doubles from 128 to 256     *)
(* (from 256 to 512 they are two steps apart).  For the arguments used the *)
(* product, the difference and the wrap by 360 are all exact in binary64.  *)
(***************************************************************************)
FineBelow(v, c) == v.md < c \/ (v.md = c /\ v.sub < 0)
FineSub(v, w) == Fine(v.md - w.md, v.sub - w.sub)

\* raHours * 15.0, for raHours whole micro-hours or, with below, the double
\* next below 12 or 24 hours: the product is the double next below 180 or 360
HoursToDegrees(raHours) ==
    Fine(15 * raHours.mh,
         IF raHours.below
         THEN (IF 15 * raHours.mh >= 256 * MicroDeg THEN -2 ELSE -1)
         ELSE 0)

\* the function with the test for values above 180 left out
lstAndRAToLongitude_oneWrap(lst, raHours) ==
    LET longitude == FineSub(lst, HoursToDegrees(raHours))
    IN  FineNeg(IF FineBelow(longitude, -180 * MicroDeg)
                THEN FineAdd(longitude, Turn)
                ELSE longitude)

\* double longitude = lst - (raHours * 15.0);
\* if (longitude < -180.0) longitude += 360.0;
\* else if (longitude > 180.0) longitude -= 360.0;
\* return -longitude;
lstAndRAToLongitude(lst, raHours) ==
    LET longitude == FineSub(lst, HoursToDegrees(raHours))
    IN  FineNeg(IF FineBelow(longitude, -180 * MicroDeg)
                THEN FineAdd(longitude, Turn)
                ELSE IF FineAbove(longitude, 180 * MicroDeg)
                     THEN FineAdd(longitude, -Turn)
                     ELSE longitude)

\* whole degrees, and the doubles next to 180 and next below 360
SiderealAngles ==
    {Fine(d * 45 * MicroDeg, 0) : d \in 0 .. 7}
    \cup {Fine(180 * MicroDeg, 1), Fine(180 * MicroDeg, -1), Fine(Turn, -2)}

\* whole hours, and the doubles next below 12 and 24
RightAscensionHours ==
    {[mh |-> h * 3 * MicroDeg, below |-> FALSE] : h \in 0 .. 7}
    \cup {[mh |-> 12 * MicroDeg, below |-> TRUE],
          [mh |-> 24 * MicroDeg, below |-> TRUE]}

Call_lstAndRAToLongitude ==
    /\ \E lst \in SiderealAngles, raHours \in RightAscensionHours :
          conv' = [fn |-> "lstAndRAToLongitude", lst |-> lst,
                   raHours |-> raHours,
                   out |-> lstAndRAToLongitude(lst, raHours)]
    /\ UNCHANGED <<objVars, memoVars, jdVars, refro, epv, xy>>

(***************************************************************************)
(* SWGChannelSettings.  channel_type is "nullptr", the empty string or a   *)
(* channel name; a sub-settings pointer is "nullptr", or an object whose   *)
(* isSet() is false ("unset") or true ("set").  setTxCalled records that   *)
(* setTx has been called on the object.  What ::SWGSDRangel::setValue      *)
(* stores through the pointer it is given depends on the JSON document and *)
(* is any value of the field.                                              *)
(***************************************************************************)
ChannelTypes == {"nullptr", "", "AMDemod"}
TxValues == {0, 1}
SubSettings == {"nullptr", "unset", "set"}

\* SWGChannelSettings::SWGChannelSettings()
SWGChannelSettings ==
    [channel_type |-> "nullptr", m_channel_type_isSet |-> FALSE,
     tx |-> 0, m_tx_isSet |-> FALSE,
     am_demod_settings |-> "nullptr", m_am_demod_settings_isSet |-> FALSE,
     nfm_demod_settings |-> "nullptr", m_nfm_demod_settings_isSet |-> FALSE,
     nfm_mod_settings |-> "nullptr", m_nfm_mod_settings_isSet |-> FALSE,
     setTxCalled |-> FALSE]

\* void SWGChannelSettings::init()
init(s) ==
    [s EXCEPT !.channel_type = "", !.m_channel_type_isSet = FALSE,
              !.tx = 0, !.m_tx_isSet = FALSE,
              !.am_demod_settings = "unset", !.m_am_demod_settings_isSet = FALSE,
              !.nfm_demod_settings = "unset", !.m_nfm_demod_settings_isSet = FALSE,
              !.nfm_mod_settings = "unset", !.m_nfm_mod_settings_isSet = FALSE]

\* fromJsonObject if it also marked tx as set
fromJsonObject_marked(s, loaded) ==
    [s EXCEPT !.channel_type = loaded.channel_type,
              !.tx = loaded.tx, !.m_tx_isSet = TRUE,
              !.am_demod_settings = loaded.am_demod_settings,
              !.nfm_demod_settings = loaded.nfm_demod_settings,
              !.nfm_mod_settings = loaded.nfm_mod_settings]

\* void SWGChannelSettings::fromJsonObject(QJsonObject &pJson): setValue is
\* handed the address of each of the five fields and of nothing else
fromJsonObject(s, loaded) ==
    [s EXCEPT !.channel_type = loaded.channel_type,
              !.tx = loaded.tx,
              !.am_demod_settings = loaded.am_demod_settings,
              !.nfm_demod_settings = loaded.nfm_demod_settings,
              !.nfm_mod_settings = loaded.nfm_mod_settings]

\* toJsonValue(name, value, obj, type) and obj->insert(name, value): the
\* member name is added to the object
toJsonValue(name, value) == name :> value

\* QJsonObject* SWGChannelSettings::asJsonObject()
asJsonObject(s) ==
    (IF s.channel_type # "nullptr" /\ s.channel_type # ""
     THEN toJsonValue("channelType", s.channel_type) ELSE NoMembers)
    @@ (IF s.m_tx_isSet THEN toJsonValue("tx", s.tx) ELSE NoMembers)
    @@ (IF s.am_demod_settings # "nullptr" /\ s.am_demod_settings = "set"
        THEN toJsonValue("AMDemodSettings", "object") ELSE NoMembers)
    @@ (IF s.nfm_demod_settings # "nullptr" /\ s.nfm_demod_settings = "set"
        THEN toJsonValue("NFMDemodSettings", "object") ELSE NoMembers)
    @@ (IF s.nfm_mod_settings # "nullptr" /\ s.nfm_mod_settings = "set"
        THEN toJsonValue("NFMModSettings", "object") ELSE NoMembers)

\* isSet() testing the flag of channel_type instead of its value
isSet_flag(s) ==
    \/ s.m_channel_type_isSet
    \/ s.m_tx_isSet
    \/ s.am_demod_settings # "nullptr" /\ s.am_demod_settings = "set"
    \/ s.nfm_demod_settings # "nullptr" /\ s.nfm_demod_settings = "set"
    \/ s.nfm_mod_settings # "nullptr" /\ s.nfm_mod_settings = "set"

\* bool SWGChannelSettings::isSet()
isSet(s) ==
    \/ s.channel_type # "nullptr" /\ s.channel_type # ""
    \/ s.m_tx_isSet
    \/ s.am_demod_settings # "nullptr" /\ s.am_demod_settings = "set"
    \/ s.nfm_demod_settings # "nullptr" /\ s.nfm_demod_settings = "set"
    \/ s.nfm_mod_settings # "nullptr" /\ s.nfm_mod_settings = "set"

Call_init ==
    /\ swg' = init(swg)
    /\ UNCHANGED <<callVars, quad, czml>>

Call_setChannelType ==
    /\ \E channel_type \in ChannelTypes :
          swg' = [swg EXCEPT !.channel_type = channel_type,
                             !.m_channel_type_isSet = TRUE]
    /\ UNCHANGED <<callVars, quad, czml>>

Call_setTx ==
    /\ \E tx \in TxValues :
          swg' = [swg EXCEPT !.tx = tx, !.m_tx_isSet = TRUE,
                             !.setTxCalled = TRUE]
    /\ UNCHANGED <<callVars, quad, czml>>

Call_setAmDemodSettings ==
    /\ \E am_demod_settings \in SubSettings :
          swg' = [swg EXCEPT !.am_demod_settings = am_demod_settings,
                             !.m_am_demod_settings_isSet = TRUE]
    /\ UNCHANGED <<callVars, quad, czml>>

Call_setNfmDemodSettings ==
    /\ \E nfm_demod_settings \in SubSettings :
          swg' = [swg EXCEPT !.nfm_demod_settings = nfm_demod_settings,
                             !.m_nfm_demod_settings_isSet = TRUE]
    /\ UNCHANGED <<callVars, quad, czml>>

Call_setNfmModSettings ==
    /\ \E nfm_mod_settings \in SubSettings :
          swg' = [swg EXCEPT !.nfm_mod_settings = nfm_mod_settings,
                             !.m_nfm_mod_settings_isSet = TRUE]
    /\ UNCHANGED <<callVars, quad, czml>>

LoadedValues ==
    [channel_type : ChannelTypes, tx : TxValues,
     am_demod_settings : SubSettings, nfm_demod_settings : SubSettings,
     nfm_mod_settings : SubSettings]

Call_fromJsonObject ==
    /\ \E loaded \in LoadedValues : swg' = fromJsonObject(swg, loaded)
    /\ UNCHANGED <<callVars, quad, czml>>

(***************************************************************************)
(* Specifications.                                                         *)
(***************************************************************************)
Init ==
    /\ j2000 = PlusZero
    /\ b1950 = PlusZero
    /\ last = NoCall
    /\ thr = [t \in Threads |-> ThreadIdle]
    /\ cal = NoDateTime
    /\ jdv = NoJulianDate
    /\ jdPrev = NoJulianDate
    /\ refro = RefroIdle
    /\ epv = EpvIdle
    /\ xy = XYIdle
    /\ conv = NoConversion
    /\ quad = QuadIdle
    /\ czml = CZML
    /\ swg = SWGChannelSettings

\* one caller, one call after another
NextSeq == Call_jd_j2000 \/ Call_jd_b1950 \/ Call_localSiderealTime
SpecSeq == Init /\ [][NextSeq]_vars

\* several threads inside jd_j2000 / jd_b1950
NextRace == \E t \in Threads : Enter(t) \/ Test(t) \/ Store(t) \/ Load(t)
SpecRace == Init /\ [][NextRace]_vars

\* julianDate over the calendar
NextJD == Call_julianDate \/ Call_julianDate_NextDay
SpecJD == Init /\ [][NextJD]_vars

\* palRefro
NextRefro == Call_palRefro \/ RefroStep
SpecRefro == Init /\ [][NextRefro]_vars

\* the ephemeris
NextEpv == Call_earthOrbitVelocityBCRS
SpecEpv == Init /\ [][NextEpv]_vars

\* the stereographic mappings
NextXY ==
    \/ Call_azAltToXY85 \/ Call_azAltToXY30
    \/ Call_xy85ToAzAlt \/ Call_xy30ToAzAlt
SpecXY == Init /\ [][NextXY]_vars

\* raDecToAzAlt
NextAzAlt == Call_raDecToAzAlt
SpecAzAlt == Init /\ [][NextAzAlt]_vars

\* precess
NextPrecess == Call_precess
SpecPrecess == Init /\ [][NextPrecess]_vars

\* the galactic conversions
NextGalactic ==
    \/ Call_equatorialToGalactic \/ Call_galacticToEquatorial
    \/ Call_galacticToEquatorial_back
SpecGalactic == Init /\ [][NextGalactic]_vars

\* the Doppler conversions
NextDoppler ==
    \/ Call_dopplerToVelocity \/ Call_velocityToDoppler
    \/ Call_velocityToDoppler_back
SpecDoppler == Init /\ [][NextDoppler]_vars

\* Julian date and back
NextRoundTrip ==
    \/ Call_julianDate_binary64 \/ Call_julianDateToDateTime
    \/ Call_julianDateToDateTime_back
SpecRoundTrip == Init /\ [][NextRoundTrip]_vars

\* sunrise and sunset
NextSunrise == Call_sunrise
SpecSunrise == Init /\ [][NextSunrise]_vars

\* refractionPAL called with one altitude after another
NextRefz == Call_refractionPAL
SpecRefz == Init /\ [][NextRefz]_vars

\* the quadrature of palRefro, one grid point at a time
NextQuad == Quad_Layer \/ Quad_Pass \/ Quad_Point \/ Quad_Simpson \/ Quad_Return
SpecQuad == Init /\ [][NextQuad]_vars

\* the map updates one item after another
NextCzml == Call_update
SpecCzml == Init /\ [][NextCzml]_vars

\* moonDays and julianDate on every day of the range
NextMoon == Call_moonDays \/ Call_moonDays_NextDay
SpecMoon == Init /\ [][NextMoon]_vars

\* lstAndRAToLongitude called with one pair of arguments after another
NextLongitude == Call_lstAndRAToLongitude
SpecLongitude == Init /\ [][NextLongitude]_vars

\* init, the setters and fromJsonObject called in any order on one object
NextSwg ==
    \/ Call_init
    \/ Call_setChannelType
    \/ Call_setTx
    \/ Call_setAmDemodSettings
    \/ Call_setNfmDemodSettings
    \/ Call_setNfmModSettings
    \/ Call_fromJsonObject
SpecSwg == Init /\ [][NextSwg]_vars

(***************************************************************************)
(* Properties.                                                             *)
(***************************************************************************)

\* C1: under every interleaving of concurrent calls, each call of jd_j2000()
\* or jd_b1950() returns the fully computed epoch constant, never 0.0 and
\* never a partially written value.
C1_EveryCallReturnsEpoch ==
    \A t \in Threads :
        thr[t].pc = "returned" => thr[t].ret = Epoch(thr[t].fn)

\* what a call returns when nothing was called before it
FreshReturn(call) ==
    IF call.fn = "jd_j2000" THEN jd_j2000(PlusZero).ret
    ELSE IF call.fn = "jd_b1950" THEN jd_b1950(PlusZero).ret
    ELSE localSiderealTime(call.dateTime, call.longitude, PlusZero).ret

\* C2: a call returns what the same call returns when no call preceded it,
\* whatever calls were made before, and a memoized epoch, once computed, is
\* never changed by a later call.
C2_HistoryIndependent ==
    /\ [](last.fn # "none" => last.ret = FreshReturn(last))
    /\ [][ /\ (~IsZeroDouble(j2000) => j2000' = j2000)
           /\ (~IsZeroDouble(b1950) => b1950' = b1950) ]_vars

C2_Witness ==
    /\ last.fn = "localSiderealTime"
    /\ ~last.ran
    /\ ~IsZeroDouble(b1950)
    /\ last.dateTime = DateTime(1999, 12, 31, 23, 59, 59)

\* C3: julianDate(2000, 1, 1, 12, 0, 0) is 2451545.0 exactly: day number
\* 2451545, fractional-day term 0, binary64 image 0x4142B42C80000000.
C3_J2000Exact ==
    cal = DateTime(2000, 1, 1, 12, 0, 0)
        => /\ jdv = [jdn |-> 2451545, sec |-> 0]
           /\ DoubleImage(jdv) = <<16706, 46124, 32768, 0>>

C3_Witness == cal = DateTime(2000, 1, 1, 12, 0, 0) /\ jdv.jdn # 0

\* C4: the integer day number is 2415021 on 1 January 1900 and going to the
\* next calendar day increases it by exactly 1, for every day of the range.
C4_NextDayAddsOne ==
    /\ (cal.year = 1900 /\ cal.month = 1 /\ cal.day = 1) => jdv.jdn = 2415021
    /\ jdPrev # NoJulianDate => jdv.jdn = jdPrev.jdn + 1

C4_Witness ==
    /\ cal.year = 2100 /\ cal.month = 3 /\ cal.day = 1
    /\ jdPrev = julianDate(2100, 2, 28, cal.hour, cal.minute, cal.second)

\* number of values i, i+n, i+2n, ... below strips
PointsLeft(ii, strips, nn) ==
    IF ii >= strips THEN 0 ELSE (strips - ii + nn - 1) \div nn

RECURSIVE LaterPasses(_)
\* steps of the passes that follow a pass on strips strips, if all are made:
\* each has its start, strips/2 new points of at most 6 steps, and its test
LaterPasses(strips) ==
    IF strips >= ISMAX THEN 0
    ELSE 2 + 6 * PointsLeft(1, 2 * strips, 2) + LaterPasses(2 * strips)

LayerSteps == 1 + (2 + 6 * PointsLeft(1, 8, 1) + LaterPasses(8)) + 1

\* an upper bound on the number of steps palRefro has still to make
StepsLeft ==
    LET rest == (2 - refro.k) * LayerSteps + 1
        tail == 1 + LaterPasses(refro.is) + 1 + rest
    IN  CASE refro.pc = "layer" ->
                IF refro.k > 2 THEN 1 ELSE (3 - refro.k) * LayerSteps + 1
          [] refro.pc = "while" ->
                IF refro.loop # 0
                THEN 1 + 6 * PointsLeft(1, refro.is, refro.n) + tail
                ELSE 1 + rest
          [] refro.pc = "for" ->
                6 * PointsLeft(refro.i, refro.is, refro.n) + tail
          [] refro.pc = "radius" ->
                (5 - refro.j)
                + 6 * PointsLeft(refro.i + refro.n, refro.is, refro.n) + tail
          [] OTHER -> 0

RefroRunning == refro.pc \notin {"idle", "done"}

\* C5: palRefro terminates for every outcome of its floating-point
\* comparisons: while it runs a next step always exists, and every step
\* strictly lowers a non-negative bound on the number of steps left, in the
\* strip-doubling loop of both layers and in every radius-finding loop.
C5_Terminates ==
    /\ [](RefroRunning => (StepsLeft > 0 /\ ENABLED RefroStep))
    /\ [](~RefroRunning => StepsLeft = 0)
    /\ [][RefroRunning => StepsLeft' < StepsLeft]_vars

C5_Witness ==
    /\ refro.pc = "done"
    /\ refro.ref.tropo = Estimate(1, ISMAX)
    /\ refro.ref.strato = Estimate(2, ISMAX)

\* C6: in each layer the number of strips starts at 8, only ever doubles,
\* never exceeds 16384 (at most 12 passes per layer), and the radius-finding
\* iteration at a sample point performs at most 4 iterations.
C6_StripsAndIterationsBounded ==
    /\ [](refro.pc \in {"while", "for", "radius"}
            => /\ refro.is <= 16384
               /\ refro.passes <= 12
               /\ (refro.passes = 0 => refro.is = 8)
               /\ (refro.passes > 0 =>
                      refro.is \in {8 * Pow2(refro.passes - 1),
                                    8 * Pow2(refro.passes)})
               /\ refro.j <= 4)
    /\ [][refro'.is \in {refro.is, 2 * refro.is, 8, 0}]_vars

C6_Witness ==
    /\ refro.pc = "radius"
    /\ refro.k = 2
    /\ refro.is = 16384
    /\ refro.passes = 12
    /\ refro.j = 4

\* C7: when a layer's test is made at the strip cap with the change still
\* above the tolerance, the loop of that layer stops there, the estimate on
\* 16384 strips is the layer's contribution, and the result is the
\* troposphere contribution plus the stratosphere contribution, without any
\* error indication.
C7_CapReturnsLastEstimate ==
    /\ [][ (refro.pc = "for" /\ refro.i >= refro.is /\ refro.is = ISMAX
            /\ refro'.pc = "while" /\ refro'.exceeds)
           => /\ refro'.loop = 0
              /\ refro'.is = ISMAX
              /\ refro'.refp = Estimate(refro.k, ISMAX)
              /\ (refro.k = 1 => refro'.reft = Estimate(1, ISMAX)) ]_vars
    /\ [](refro.pc = "done"
            => /\ DOMAIN refro.ref = {"tropo", "strato", "negated"}
               /\ refro.ref.tropo = refro.reft
               /\ refro.ref.strato = refro.refp
               /\ refro.reft.layer = 1
               /\ refro.refp.layer = 2)
    /\ [](refro.k = 2 => refro.reft.layer = 1)

C7_Witness ==
    /\ refro.pc = "done"
    /\ refro.exceeds
    /\ refro.ref.tropo = Estimate(1, ISMAX)
    /\ refro.ref.strato = Estimate(2, ISMAX)
    /\ refro.ref.negated

\* calendar order of two UTC date-times
DateTimeLE(a, b) ==
    LET ka == <<a.year, a.month, a.day, a.hour, a.minute, a.second>>
        kb == <<b.year, b.month, b.day, b.hour, b.minute, b.second>>
    IN  \/ ka = kb
        \/ \E p \in 1 .. 6 :
              /\ ka[p] < kb[p]
              /\ \A q \in 1 .. (p - 1) : ka[q] = kb[q]

\* within 100 Julian years (36525 days) of 2000-01-01 12:00:00
WithinCentury(dateTime) ==
    /\ DateTimeLE(DateTime(1899, 12, 31, 12, 0, 0), dateTime)
    /\ DateTimeLE(dateTime, DateTime(2100, 1, 1, 12, 0, 0))

\* C8: eraEpv00 returns status 0 exactly when the date is within 100 Julian
\* years of J2000.0 and 1 otherwise, and in both cases every heliocentric
\* and barycentric position and velocity component is filled.
C8_StatusAndComponents ==
    epv.fn # "none"
        => /\ epv.era.jstat = (IF WithinCentury(epv.dateTime) THEN 0 ELSE 1)
           /\ \A r \in 0 .. 1, c \in 0 .. 2 :
                 /\ epv.era.pvh[r][c] = "computed"
                 /\ epv.era.pvb[r][c] = "computed"

C8_Witness ==
    /\ epv.dateTime = DateTime(2100, 1, 1, 12, 0, 0)
    /\ epv.era.jstat = 0
    /\ epv.era.pvb[1][2] = "computed"

\* C9: when eraEpv00 reports status 1 (date outside 1900 to 2100), what
\* palEpv hands to its caller and what earthOrbitVelocityBCRS returns carry
\* that warning flag.
C9_CallerReceivesWarning ==
    (epv.fn # "none" /\ epv.era.jstat = 1)
        => /\ "jstat" \in DOMAIN epv.pal
           /\ "jstat" \in DOMAIN epv.ret

\* C10: no stereographic mapping evaluates a quotient whose divisor is zero,
\* so no infinity or NaN is produced.
C10_NoDivisionByZero == xy.fn # "none" => ~xy.out.divZero

\* C11: in both conventions the forward mapping of altitude exactly 90 gives
\* (x, y) = (0, 0) whatever the azimuth, and the inverse mapping of (0, 0)
\* gives altitude exactly 90 and azimuth 0.
C11_ZenithIsOrigin ==
    /\ (xy.fn \in {"azAltToXY85", "azAltToXY30"} /\ xy.in2 = 90)
          => (xy.out.x = Exact(0) /\ xy.out.y = Exact(0))
    /\ (xy.fn \in {"xy85ToAzAlt", "xy30ToAzAlt"}
        /\ xy.in1 = Deg(0) /\ xy.in2 = Deg(0))
          => (xy.out.az = Exact(0) /\ xy.out.alt = Exact(90))

C11_Witness ==
    /\ xy.fn = "azAltToXY85"
    /\ xy.in1 = 225
    /\ xy.in2 = 90
    /\ xy.out.branch = "zenith"

\* an azimuth in [0, 360)
AzimuthInRange(v) ==
    IF v.kind = "exact" THEN 0 <= v.deg /\ v.deg < 360
    ELSE IF v.kind = "small" THEN ~IsNegative(v)
    ELSE v.kind = "within" /\ 0 <= v.lo /\ v.hi <= 360

\* an altitude in [-90, 90]: a constant in that range or a value of asin
AltitudeInRange(v) ==
    IF v.kind = "exact" THEN -90 <= v.deg /\ v.deg <= 90
    ELSE v.kind = "asin(cos(y)*cos(x))"

\* C16: xy85ToAzAlt and xy30ToAzAlt return an azimuth in [0, 360) and an
\* altitude in [-90, 90] for every x and y in [-90, 90], on every branch.
C16_InverseRanges ==
    xy.fn \in {"xy85ToAzAlt", "xy30ToAzAlt"}
        => /\ AzimuthInRange(xy.out.az)
           /\ AltitudeInRange(xy.out.alt)

\* C13: localSiderealTime returns a value in [0, 360) degrees for every
\* timestamp and every longitude in [-180, 180], dates before J2000 and West
\* longitudes included.
C13_SiderealTimeInRange ==
    last.fn = "localSiderealTime" => (0 <= last.ret /\ last.ret < Turn)

\* an altitude in [-90, 90]
AltitudeWithin(v) ==
    IF v.kind = "exact" THEN -90 <= v.deg /\ v.deg <= 90
    ELSE v.kind = "within" /\ -90 <= v.lo /\ v.hi <= 90

\* C12: raDecToAzAlt returns an azimuth in [0, 360), 360 excluded, and an
\* altitude in [-90, 90]: the azimuth is the arccosine value a when
\* sin(hour angle) < 0 and 360 - a otherwise, for every input, hour angle 0
\* and a = 0 included.
C12_AzimuthAltitudeInRange ==
    conv.fn = "raDecToAzAlt"
        => /\ AzimuthInRange(conv.aa.az)
           /\ AltitudeWithin(conv.aa.alt)
           /\ conv.aa.az = (IF SinNegative(conv.ha) THEN conv.a
                            ELSE FromTurn(conv.a))

\* a right ascension in [0, 24) hours
HoursInRange(v) ==
    IF v.kind = "exact" THEN 0 <= v.deg /\ v.deg < 24
    ELSE IF v.kind = "small" THEN ~IsNegative(v)
    ELSE v.kind = "within" /\ 0 <= v.lo /\ v.hi <= 24

\* C14: precess returns a right ascension in [0, 24) hours for every input:
\* the conversion back from (xp, yp, zp) resolves the quadrant in all four
\* quadrants and on the axes, xp = 0 with yp < 0 and with yp > 0 included.
C14_PrecessedRAInRange ==
    conv.fn = "precess" => HoursInRange(conv.rd_out.ra)

\* C15: equatorialToGalactic returns a longitude l in [0, 360), never 360,
\* and galacticToEquatorial a right ascension in [0, 24): the one wrap
\* applied after the fixed offset is added is enough for every input.
C15_GalacticRanges ==
    /\ conv.fn = "equatorialToGalactic"
          => /\ ~FineNegative(conv.out.l)
             /\ ~FineAbove(conv.out.l, Turn - 1)
    /\ conv.fn = "galacticToEquatorial" => HoursInRange(conv.out.ra)

\* distance of two angles (micro-degrees) around the circle
AngleBetween(a, b) ==
    LET dd == (a - b) % Turn IN IF dd > Turn - dd THEN Turn - dd ELSE dd

\* C19: equatorialToGalactic followed by galacticToEquatorial returns the
\* original direction within epsilon (here 0.001 degree): the 33 degrees
\* added by the forward transform and the pole longitude 122.93129 of the
\* inverse describe the same rotation.
C19_GalacticRoundTrip ==
    (conv.fn = "galacticToEquatorial" /\ conv.roundTrip)
        => /\ AngleBetween(conv.out.eq.psi.md, conv.eq.psi.md) <= 1000
           /\ conv.out.eq.b = conv.eq.b

SecondsBetween(a, b) == (a.day - b.day) * SecondsPerDay + (a.sec - b.sec)

\* C17: for a whole-second date-time t of the years 1900 to 2100,
\* julianDateToDateTime(julianDate(t)) differs from t by at most 1 second.
C17_JulianDateRoundTrip ==
    (conv.fn = "julianDateToDateTime" /\ conv.roundTrip)
        => SecondsBetween(conv.out, SecsSinceEpoch(conv.dt)) \in {-1, 0, 1}

C17_Witness ==
    /\ conv.fn = "julianDateToDateTime" /\ conv.roundTrip
    /\ conv.dt = DateTime(2024, 3, 20, 3, 14, 7)
    /\ SecondsBetween(conv.out, SecsSinceEpoch(conv.dt)) # 0

\* C20: sunrise applies no guard and no clamp to the argument of the
\* arccosine.  When the argument is outside [-1, 1] both results come from
\* a NaN, not from a clamped hour angle; when it is inside, rise <= set and
\* the two are symmetric about the solar transit (to the whole second the
\* results are held in).
C20_SunriseUnguarded ==
    conv.fn = "sunrise" =>
        LET r == conv.out
            t == julianDateToDateTime(r.transit)
        IN  /\ ~r.inside => (r.rise.nan /\ r.set.nan)
            /\ r.inside =>
                  /\ ~r.rise.nan /\ ~r.set.nan
                  /\ SecondsBetween(r.set.t, r.rise.t) >= 0
                  /\ SecondsBetween(r.set.t, t) - SecondsBetween(t, r.rise.t)
                        \in {-1, 0, 1}

C20_Witness ==
    /\ conv.fn = "sunrise"
    /\ conv.latitude = 80000 /\ conv.fp.dec = 23439
    /\ conv.out.rise.nan /\ conv.out.set.nan

\* C21: for altitude el in (90, 180] and azimuth az in [0, 360), azAltToXY85
\* and azAltToXY30 return exactly what they return for altitude 180 - el and
\* azimuth az + 180 (az < 180) or az - 180 (az >= 180); the folded azimuth
\* stays in [0, 360) and the folded altitude in [0, 90).
C21_OverTheTopFolds ==
    (/\ xy.fn \in {"azAltToXY85", "azAltToXY30"}
     /\ 90 < xy.in2 /\ xy.in2 <= 180
     /\ 0 <= xy.in1 /\ ~AzAtLeast(AzAlt(xy.in1, xy.in2, xy.below), 360))
        => LET aa == AzAlt(xy.in1, xy.in2, xy.below)
               f  == IF AzAtLeast(aa, 180)
                     THEN AzAlt(aa.az - 180, 180 - aa.alt, aa.below)
                     ELSE AzAlt(aa.az + 180, 180 - aa.alt, FALSE)
           IN  /\ xy.out = (IF xy.fn = "azAltToXY85" THEN azAltToXY85(f)
                            ELSE azAltToXY30(f))
               /\ 0 <= f.az /\ ~AzAtLeast(f, 360)
               /\ 0 <= f.alt /\ f.alt < 90

InteriorPoints(strips, parity) ==
    SetToBag({GridPoint(i, strips) : i \in {j \in 1 .. strips - 1 : j % 2 = parity}})

\* C23: when Simpson's rule is evaluated for a pass with is strips, fo is the
\* sum of the integrand over the odd interior grid indices and fe the sum over
\* the even interior grid indices of that grid, and every interior grid point
\* has been evaluated exactly once in all the passes of the layer.
C23_OddEvenSums ==
    (quad.pc = "for" /\ quad.i >= quad.is)
        => /\ quad.fo = InteriorPoints(quad.is, 1)
           /\ quad.fe = InteriorPoints(quad.is, 0)
           /\ quad.evaluated
                 = InteriorPoints(quad.is, 1) (+) InteriorPoints(quad.is, 0)

\* Simpson's rule is about to be evaluated on the third pass of a layer
C23_Witness ==
    /\ quad.pc = "for" /\ quad.i >= quad.is
    /\ quad.is = 32 /\ quad.n = 2
    /\ BagCardinality(quad.fo) = 16 /\ BagCardinality(quad.fe) = 15

\* the last call of update was for a movable item that is not a removal
MovableShown ==
    /\ czml.call # NoMembers
    /\ czml.call.m_image # ""
    /\ ~czml.call.m_fixedPosition

\* C24: m_ids[id] is written by the first update for the id and is never
\* modified or removed afterwards, and the start of the 'availability'
\* interval emitted for a movable item without taken and predicted tracks is
\* that first-seen time.
C24_FirstSeenKept ==
    /\ czml.m_ids = czml.first
    /\ (/\ MovableShown
        /\ ~(Len(czml.call.m_takenTrack) > 0 /\ Len(czml.call.m_predictedTrack) > 0))
           => czml.obj.availability.start = czml.first[czml.call.m_name]

\* item "a" is shown again after the clock has advanced past its first update
C24_Witness ==
    /\ MovableShown
    /\ czml.call.m_name = "a"
    /\ Len(czml.call.m_takenTrack) = 0
    /\ czml.now = 1
    /\ czml.obj.availability = [start |-> 0, stop |-> 1, addSecs |-> 60]

\* what the last update emitted as forwardExtrapolationType of the position
EmittedType ==
    IF "forwardExtrapolationType" \in DOMAIN czml.obj.position
    THEN czml.obj.position.forwardExtrapolationType
    ELSE "absent"

Extrapolation ==
    LET id == czml.call.m_name
    IN  /\ EmittedType = "EXTRAPOLATE" => id \in czml.differed
        /\ id \notin czml.differed => EmittedType = "HOLD"
        /\ id \in czml.extrapolated => EmittedType = "EXTRAPOLATE"

\* C25 as stated: every update for a movable item without a predicted track
\* emits EXTRAPOLATE or HOLD by these rules.
C25_ExtrapolateOnceMovedAlways ==
    (/\ czml.call # NoMembers
     /\ ~czml.call.m_fixedPosition
     /\ Len(czml.call.m_predictedTrack) = 0)
        => Extrapolation

\* C25: for a movable item without a predicted track whose image is not empty,
\* update emits EXTRAPOLATE only if this update or an earlier one for the id
\* supplied a coordinate array different from the stored one, and HOLD
\* otherwise; once EXTRAPOLATE has been emitted for an id, every later such
\* update emits EXTRAPOLATE.
C25_ExtrapolateOnceMoved ==
    (MovableShown /\ Len(czml.call.m_predictedTrack) = 0) => Extrapolation

\* EXTRAPOLATE is emitted for item "a"
C25_Witness ==
    /\ MovableShown
    /\ czml.call.m_name = "a"
    /\ Len(czml.call.m_predictedTrack) = 0
    /\ EmittedType = "EXTRAPOLATE"

\* C26: an update for an item whose image is empty returns an object with
\* only the id and a position made of the array last stored for the id (an
\* empty array if none was stored) with forwardExtrapolationType NONE, plus
\* altitudeReference CLIP_TO_GROUND when the altitude reference is 3, and
\* leaves m_lastPosition and m_hasMoved unchanged.
C26_RemovalObject ==
    [][czml'.call.m_image = ""
         => LET id == czml'.call.m_name
                clip == czml'.call.m_altitudeReference = 3
            IN  /\ DOMAIN czml'.obj
                     = {"id", "position"}
                       \cup (IF clip THEN {"altitudeReference"} ELSE {})
                /\ czml'.obj.id = id
                /\ czml'.obj.position
                     = [cartographicDegrees |-> Value(czml.m_lastPosition, id, <<>>),
                        forwardExtrapolationType |-> "NONE"]
                /\ clip => czml'.obj.altitudeReference = "CLIP_TO_GROUND"
                /\ czml'.m_lastPosition = czml.m_lastPosition
                /\ czml'.m_hasMoved = czml.m_hasMoved]_vars

\* item "a" is removed after it has been shown at place 2 and has moved
C26_Witness ==
    /\ czml.call # NoMembers
    /\ czml.call.m_name = "a"
    /\ czml.call.m_image = ""
    /\ czml.call.m_altitudeReference = 3
    /\ Contains(czml.m_hasMoved, "a")
    /\ czml.obj.position.cartographicDegrees = <<[time |-> -1, at |-> 2]>>

\* julianDate(dt) - 2451543.5 minus d + sec/86400, the value moonDays rounds,
\* in 86400ths of 2^-31 day; the subtraction of 2451543.5 is exact
DayCountGap ==
    LET fb == FracBits(conv.out.sec, 31)
    IN  IF conv.jd.jdn - 2451544 = conv.out.d
        THEN [days |-> 0,
              part |-> (conv.jd.units + HalfDayUnits - fb.q) * SecondsPerDay - fb.r]
        ELSE [days |-> conv.jd.jdn - 2451544 - conv.out.d, part |-> 0]

InRange == conv.fn = "moonDays" /\ conv.dateTime.year \in MinYear .. MaxYear

C28_LongitudeWrapped ==
    (/\ conv.fn = "lstAndRAToLongitude"
     /\ ~FineNegative(conv.lst) /\ FineBelow(conv.lst, Turn)
     /\ conv.raHours.mh >= 0
     /\ (conv.raHours.mh < 24 * MicroDeg
         \/ (conv.raHours.mh = 24 * MicroDeg /\ conv.raHours.below)))
        => LET x == FineSub(conv.lst, HoursToDegrees(conv.raHours))
           IN  /\ ~FineBelow(conv.out, -180 * MicroDeg)
               /\ ~FineAbove(conv.out, 180 * MicroDeg)
               /\ conv.out.md + x.md \in {-Turn, 0, Turn}
               /\ conv.out.sub + x.sub = 0

\* the sidereal time is just above 180 degrees and the right ascension is 0:
\* the difference is wrapped to just above -180 and returned just below 180
C28_Witness ==
    /\ conv.fn = "lstAndRAToLongitude"
    /\ conv.lst = Fine(180 * MicroDeg, 1)
    /\ conv.raHours = [mh |-> 0, below |-> FALSE]
    /\ conv.out = Fine(180 * MicroDeg, -1)

\* C29: after any sequence of init, setter and fromJsonObject calls, isSet()
\* is true exactly when asJsonObject() emits at least one member.
C29_IsSetIffEmits ==
    isSet(swg) <=> DOMAIN asJsonObject(swg) # {}

\* only channel_type makes the object set: it was loaded from JSON and no
\* setter has been called since init
C29_Witness ==
    /\ swg.channel_type = "AMDemod"
    /\ ~swg.m_channel_type_isSet /\ ~swg.m_tx_isSet
    /\ swg.am_demod_settings = "unset"
    /\ swg.nfm_demod_settings = "unset"
    /\ swg.nfm_mod_settings = "unset"
    /\ DOMAIN asJsonObject(swg) = {"channelType"}

Flags(s) ==
    <<s.m_channel_type_isSet, s.m_tx_isSet, s.m_am_demod_settings_isSet,
      s.m_nfm_demod_settings_isSet, s.m_nfm_mod_settings_isSet>>

\* the five values a step leaves in the fields setValue is handed
Loaded(s) ==
    [channel_type |-> s.channel_type, tx |-> s.tx,
     am_demod_settings |-> s.am_demod_settings,
     nfm_demod_settings |-> s.nfm_demod_settings,
     nfm_mod_settings |-> s.nfm_mod_settings]

\* the step is one a setter can take: one field and its flag
SetterStep ==
    \/ swg' = [swg EXCEPT !.channel_type = swg'.channel_type,
                          !.m_channel_type_isSet = TRUE]
    \/ swg' = [swg EXCEPT !.tx = swg'.tx, !.m_tx_isSet = TRUE,
                          !.setTxCalled = TRUE]
    \/ swg' = [swg EXCEPT !.am_demod_settings = swg'.am_demod_settings,
                          !.m_am_demod_settings_isSet = TRUE]
    \/ swg' = [swg EXCEPT !.nfm_demod_settings = swg'.nfm_demod_settings,
                          !.m_nfm_demod_settings_isSet = TRUE]
    \/ swg' = [swg EXCEPT !.nfm_mod_settings = swg'.nfm_mod_settings,
                          !.m_nfm_mod_settings_isSet = TRUE]

\* C30: fromJsonObject leaves every m_*_isSet flag unchanged; only the setters
\* set a flag to true and only init (and the constructor) sets one to false;
\* so asJsonObject emits 'tx' only if setTx has been called on the object.
C30_FlagsOnlyFromSetters ==
    [][/\ swg' = fromJsonObject(swg, Loaded(swg')) => Flags(swg') = Flags(swg)
       /\ \A i \in 1 .. 5 :
             /\ (~Flags(swg)[i] /\ Flags(swg')[i]) => SetterStep
             /\ (Flags(swg)[i] /\ ~Flags(swg')[i]) => swg' = init(swg)
       /\ "tx" \in DOMAIN asJsonObject(swg') => swg'.setTxCalled]_vars

\* tx was set to 0 by setTx and then loaded as 1 from JSON: 1 is emitted
C30_Witness ==
    /\ swg.setTxCalled /\ swg.m_tx_isSet
    /\ swg.tx = 1
    /\ swg.channel_type = "AMDemod" /\ ~swg.m_channel_type_isSet
    /\ asJsonObject(swg)["tx"] = 1

====
